---- MODULE Spec2Model ----
(***************************************************************************)
(* Matryoshka (hierarchical nesting) analysis of chain_reflow:             *)
(* src/src/matryoshka_analysis.py.                                         *)
(*                                                                         *)
(* An architecture is a record of the fields the analyzer reads.  A name   *)
(* or a description is the sequence of its words; a keyword occurs in a    *)
(* text when it is a substring of one of the lower-cased words.  A float   *)
(* score s is held as the integer 10000 * s, the last digit carrying the   *)
(* rounding residue of the IEEE double (0.30000000000000004 is 3001,       *)
(* 0.7999999999999999 is 7999).                                            *)
(***************************************************************************)
EXTENDS Integers, Sequences, FiniteSets, TLC

VARIABLES
    architectures,       \* the input list of architecture dicts
    hierarchy_metadata,  \* name -> HierarchyMetadata
    relationships,       \* list of NestingRelationship
    gaps,                \* list of HierarchicalGap
    pc,                  \* position in analyze_graph / demo
    relAB,               \* result of analyze_relationship(A, B), if called
    relBA,               \* result of analyze_relationship(B, A), if called
    gapAB,               \* result of _identify_missing_intermediate, if called
    data,                \* the JSON document handed to GraphSystem.from_json
    system,              \* the GraphSystem, once there is one
    raised,              \* the exception the last call raised, "" if none
    call,                \* the last call made on the GraphSystem
    ncalls,              \* the number of calls made on the GraphSystem
    system_a,            \* the GraphSystem on one side of the missing system
    system_c,            \* the GraphSystem on the other side
    solution,            \* what MissingSystemSolver.solve returned, if called
    layers,              \* what MultiLayerGapDetector.detect returned, if called
    invocation,          \* the command line of an analysis CLI and the files it names
    exit_code,           \* the exit code of the CLI, once it has exited
    stderr,              \* the messages the CLI printed on stderr
    effects,             \* what the CLI has done: run the analysis, written the output
    workflow_data,       \* the workflow of a WorkflowRunner
    working_memory,      \* its working memory, as saved in working_memory.json
    tracker,             \* step_progress_tracker.json: step id -> status
    tracker_writes,      \* the writes made to step_progress_tracker.json, in order
    current_step_id,     \* the loop variable of WorkflowRunner.run
    validator,           \* the nodes, edges and issues of an ArchitectureValidator
    cycles_found         \* what check_circular_dependencies returned, if called

\* the state of matryoshka_analysis.py and that of matrix_gap_detection.py
matryoshka_vars == <<architectures, hierarchy_metadata, relationships, gaps,
                     relAB, relBA, gapAB>>
graph_vars == <<data, system, raised, call, ncalls>>
solver_vars == <<system_a, system_c, solution, layers>>

cli_vars == <<invocation, exit_code, stderr, effects>>
workflow_vars == <<workflow_data, working_memory, tracker, tracker_writes, current_step_id>>
validator_vars == <<validator, cycles_found>>
tool_vars == <<cli_vars, workflow_vars, validator_vars>>

vars == <<matryoshka_vars, pc, graph_vars, solver_vars, tool_vars>>

-----------------------------------------------------------------------------
(* Bounds of the model *)

MaxWords == 2
MaxArchs == 3
MaxSubarchitectures == 1

-----------------------------------------------------------------------------
(* Python values *)

NoneVal == "None"
NoName == <<>>

Min(a, b) == IF a <= b THEN a ELSE b
Max(a, b) == IF a >= b THEN a ELSE b
Abs(a) == IF a < 0 THEN 0 - a ELSE a

RECURSIVE SelectWhere(_, _)
\* [x for x in s if Keep(x)] with Keep given as a set of indexes
SelectWhere(s, keep) ==
    IF s = <<>> THEN <<>>
    ELSE LET n == Len(s)
             front == SelectWhere(SubSeq(s, 1, n - 1), keep)
         IN IF n \in keep THEN Append(front, s[n]) ELSE front

-----------------------------------------------------------------------------
(* HierarchyLevel, RelationshipType and the level table *)

COMPONENT == "component"
SUBSYSTEM == "subsystem"
SYSTEM == "system"
SYSTEM_OF_SYSTEMS == "system_of_systems"
ENTERPRISE == "enterprise"
UNKNOWN == "unknown"

PEER == "peer"
PARENT_CHILD == "parent_child"
CHILD_PARENT == "child_parent"
NESTED_INDIRECT == "nested_indirect"
UNRELATED == "unrelated"

hierarchy_order == <<COMPONENT, SUBSYSTEM, SYSTEM, SYSTEM_OF_SYSTEMS, ENTERPRISE>>

\* typical_component_count is (lo, hi); bounded = FALSE stands for hi = inf
level_indicators ==
    [l \in {COMPONENT, SUBSYSTEM, SYSTEM, SYSTEM_OF_SYSTEMS, ENTERPRISE} |->
        CASE l = COMPONENT ->
               [lo |-> 1, hi |-> 20, bounded |-> TRUE,
                keywords |-> <<"component", "module", "part", "unit", "element">>,
                scope |-> "single_responsibility"]
          [] l = SUBSYSTEM ->
               [lo |-> 5, hi |-> 50, bounded |-> TRUE,
                keywords |-> <<"subsystem", "assembly", "group", "package">>,
                scope |-> "related_components"]
          [] l = SYSTEM ->
               [lo |-> 10, hi |-> 200, bounded |-> TRUE,
                keywords |-> <<"system", "platform", "service", "application">>,
                scope |-> "complete_functionality"]
          [] l = SYSTEM_OF_SYSTEMS ->
               [lo |-> 50, hi |-> 1000, bounded |-> TRUE,
                keywords |-> <<"system_of_systems", "integrated", "enterprise", "platform">>,
                scope |-> "multiple_systems"]
          [] l = ENTERPRISE ->
               [lo |-> 100, hi |-> 0, bounded |-> FALSE,
                keywords |-> <<"enterprise", "organization", "portfolio", "fleet">>,
                scope |-> "organization_level"]]

\* the weights of the four signals and the floor, as 10000 * value
W_COUNT == 4000
W_NAME == 3000
W_DESCRIPTION == 2000
W_SCOPE == 1000
UNKNOWN_FLOOR == 3000
DECLARED_CONFIDENCE == 9000
CONFIDENCE_CAP == 10000

-----------------------------------------------------------------------------
(* str.lower() and the `in` operator on strings *)

\* str.lower() of a word
Lower(w) ==
    CASE w = "Platform" -> "platform"
      [] w = "Multiple_Systems" -> "multiple_systems"
      [] w = "A" -> "a"
      [] w = "B" -> "b"
      [] w = "C" -> "c"
      [] w = "D" -> "d"
      [] OTHER -> w

\* the (keyword, word) pairs in which the keyword is a proper substring of the word
ProperSubstrings == {<<"system", "subsystem">>, <<"system", "system_of_systems">>}

\* keyword in text.lower(), the text being the sequence of its words
KeywordIn(keyword, text) ==
    \E i \in 1..Len(text) :
        \/ keyword = Lower(text[i])
        \/ <<keyword, Lower(text[i])>> \in ProperSubstrings

\* the first keyword of the list found in the text (the loop with break), 0 if none
FirstKeyword(keywords, text) ==
    LET hits == {i \in 1..Len(keywords) : KeywordIn(keywords[i], text)}
    IN IF hits = {} THEN 0 ELSE CHOOSE i \in hits : \A j \in hits : i <= j

-----------------------------------------------------------------------------
(* infer_hierarchy_level *)

\* score += w in IEEE double arithmetic, on the sums the four weights can form
FloatAdd(score, w) ==
    LET exact == score + w
    IN CASE score = 2000 /\ w = 1000 -> exact + 1
         [] score = 4000 /\ w = 2000 -> exact + 1
         [] score = 7000 /\ w = 1000 -> exact - 1
         [] score = 7000 /\ w = 2000 -> exact - 1
         [] OTHER -> exact

Ev(kind, level, keyword, n) ==
    [kind |-> kind, level |-> level, keyword |-> keyword, n |-> n]

\* one iteration of the loop over hierarchy_order: the score and the evidence of a level
LevelScore(arch, level) ==
    LET ind == level_indicators[level]
        n == arch.components
        inRange == ind.lo <= n /\ (ind.bounded => n <= ind.hi)
        s1 == IF inRange THEN FloatAdd(0, W_COUNT) ELSE 0
        e1 == IF inRange THEN <<Ev("count", level, "", n)>> ELSE <<>>
        kn == FirstKeyword(ind.keywords, arch.name)
        s2 == IF kn # 0 THEN FloatAdd(s1, W_NAME) ELSE s1
        e2 == IF kn # 0 THEN Append(e1, Ev("name", level, ind.keywords[kn], 0)) ELSE e1
        kd == FirstKeyword(ind.keywords, arch.description)
        s3 == IF kd # 0 THEN FloatAdd(s2, W_DESCRIPTION) ELSE s2
        e3 == IF kd # 0 THEN Append(e2, Ev("description", level, ind.keywords[kd], 0)) ELSE e2
        sc == arch.scope # "" /\ Lower(arch.scope) = ind.scope
        s4 == IF sc THEN FloatAdd(s3, W_SCOPE) ELSE s3
        e4 == IF sc THEN Append(e3, Ev("scope", level, arch.scope, 0)) ELSE e3
    IN [score |-> s4, evidence |-> e4]

\* scores after the loop over hierarchy_order, by position in hierarchy_order
Scores(arch) ==
    [j \in 1..Len(hierarchy_order) |-> LevelScore(arch, hierarchy_order[j]).score]

\* MaxKey taking the minimum: min(scores, key=scores.get)
MaxKey_min(scores) ==
    CHOOSE i \in 1..Len(scores) :
        /\ \A j \in 1..Len(scores) : scores[i] <= scores[j]
        /\ \A j \in 1..(i - 1) : scores[i] < scores[j]

\* max(scores, key=scores.get): the first key, in insertion order, of maximal score
MaxKey(scores) ==
    CHOOSE i \in 1..Len(scores) :
        /\ \A j \in 1..Len(scores) : scores[j] <= scores[i]
        /\ \A j \in 1..(i - 1) : scores[j] < scores[i]

Metadata(name, declared, level, confidence, evidence) ==
    [architecture_name |-> name, declared_level |-> declared,
     inferred_level |-> level, confidence |-> confidence, evidence |-> evidence]

\* BelowFloor with the floor itself counted as below: best_score <= 0.3
BelowFloor_inclusive(best_score) == best_score <= UNKNOWN_FLOOR

\* "if best_score < 0.3": no clear winner
BelowFloor(best_score) == best_score < UNKNOWN_FLOOR

\* declared_metadata with full confidence: confidence=1.0
declared_metadata_certain(arch) ==
    Metadata(arch.name, arch.hierarchy_level, arch.hierarchy_level,
             CONFIDENCE_CAP, <<Ev("declared", arch.hierarchy_level, "", 0)>>)

\* "if declared_level: return HierarchyMetadata(...)": the declared level is trusted
declared_metadata(arch) ==
    Metadata(arch.name, arch.hierarchy_level, arch.hierarchy_level,
             DECLARED_CONFIDENCE, <<Ev("declared", arch.hierarchy_level, "", 0)>>)

infer_hierarchy_level(arch) ==
    IF arch.hierarchy_level # NoneVal /\ arch.hierarchy_level # ""
    THEN declared_metadata(arch)
    ELSE LET scores == Scores(arch)
             best_level == hierarchy_order[MaxKey(scores)]
             best_score == scores[MaxKey(scores)]
             best_evidence == LevelScore(arch, best_level).evidence
         IN IF BelowFloor(best_score)
            THEN Metadata(arch.name, NoneVal, UNKNOWN,
                          Min(best_score, CONFIDENCE_CAP),
                          <<Ev("insufficient", "", "", 0)>>)
            ELSE Metadata(arch.name, NoneVal, best_level,
                          Min(best_score, CONFIDENCE_CAP), best_evidence)

-----------------------------------------------------------------------------
(* analyze_relationship *)

\* [l.value for l in self.hierarchy_order].index(level); -1 stands for the
\* ValueError that list.index raises, which every caller catches
ListIndex(level) ==
    IF \E i \in 1..Len(hierarchy_order) : hierarchy_order[i] = level
    THEN (CHOOSE i \in 1..Len(hierarchy_order) : hierarchy_order[i] = level) - 1
    ELSE -1

RelEv(kind, who, level, n) ==
    [kind |-> kind, who |-> who, level |-> level, n |-> n]

\* id is the pair of names that follow "rel_"
NestingRelationship(id, parent, child, parent_level, child_level, type, evidence, confidence, direct) ==
    [id |-> id,
     parent_architecture |-> parent, child_architecture |-> child,
     parent_level |-> parent_level, child_level |-> child_level,
     relationship_type |-> type, evidence |-> evidence,
     confidence |-> confidence, direct_containment |-> direct]

\* any(sub.get('name') == child_name or sub.get('id') == child_arch.get('id') ...)
check_explicit_containment(parent_arch, child_arch) ==
    \E i \in 1..Len(parent_arch.subarchitectures) :
        \/ parent_arch.subarchitectures[i].name = child_arch.name
        \/ parent_arch.subarchitectures[i].id = child_arch.id

\* unknown_relationship taking the pair for peers, as if unknown were a level
unknown_relationship_as_peer(arch_a, arch_b, level_a, level_b) ==
    NestingRelationship(<<arch_a.name, arch_b.name>>,
        <<"unknown">>, <<"unknown">>, level_a, level_b,
        PEER, <<RelEv("both_at", NoName, level_a, 0)>>, 0, FALSE)

\* the except branch: one or both levels are unknown
unknown_relationship(arch_a, arch_b, level_a, level_b) ==
    NestingRelationship(<<arch_a.name, arch_b.name>>,
        <<"unknown">>, <<"unknown">>, level_a, level_b,
        UNRELATED, <<RelEv("level_unknown", NoName, "", 0)>>, 0, FALSE)

\* relationship_type_of without the NESTED_INDIRECT override
relationship_type_of_no_override(idx_a, idx_b) ==
    IF idx_a < idx_b THEN PARENT_CHILD ELSE CHILD_PARENT

\* relationship_type of two different resolved levels: PARENT_CHILD or CHILD_PARENT
\* by the order of the arguments, overridden by NESTED_INDIRECT when not adjacent
relationship_type_of(idx_a, idx_b) ==
    IF Abs(idx_a - idx_b) # 1 THEN NESTED_INDIRECT
    ELSE IF idx_a < idx_b THEN PARENT_CHILD ELSE CHILD_PARENT

analyze_relationship(arch_a, arch_b, metadata_a, metadata_b) ==
    LET level_a == metadata_a.inferred_level
        level_b == metadata_b.inferred_level
        idx_a == ListIndex(level_a)
        idx_b == ListIndex(level_b)
        a_is_parent == idx_a < idx_b
        parent_arch == IF a_is_parent THEN arch_a ELSE arch_b
        child_arch == IF a_is_parent THEN arch_b ELSE arch_a
        parent_meta == IF a_is_parent THEN metadata_a ELSE metadata_b
        child_meta == IF a_is_parent THEN metadata_b ELSE metadata_a
        level_gap == Abs(idx_a - idx_b)
        adjacent == level_gap = 1
        relationship_type == relationship_type_of(idx_a, idx_b)
        ev3 == <<RelEv("at_level", parent_arch.name, parent_meta.inferred_level, 0),
                 RelEv("at_level", child_arch.name, child_meta.inferred_level, 0),
                 RelEv("level_gap", NoName, "", level_gap)>>
        ev4 == IF ~adjacent
               THEN Append(ev3, RelEv("indirect_nesting", NoName, "", level_gap - 1))
               ELSE ev3
        explicit_containment == check_explicit_containment(parent_arch, child_arch)
        ev5 == IF explicit_containment
               THEN Append(ev4, RelEv("explicit_containment", NoName, "", 0))
               ELSE ev4
    IN IF idx_a = -1 \/ idx_b = -1
       THEN unknown_relationship(arch_a, arch_b, level_a, level_b)
       ELSE IF idx_a = idx_b
       THEN NestingRelationship(<<arch_a.name, arch_b.name>>,
                arch_a.name, arch_b.name, level_a, level_b,
                PEER, <<RelEv("both_at", NoName, level_a, 0)>>,
                Min(metadata_a.confidence, metadata_b.confidence), FALSE)
       ELSE NestingRelationship(<<parent_arch.name, child_arch.name>>,
                parent_arch.name, child_arch.name,
                parent_meta.inferred_level, child_meta.inferred_level,
                relationship_type, ev5,
                Min(parent_meta.confidence, child_meta.confidence),
                adjacent \/ explicit_containment)

-----------------------------------------------------------------------------
(* discover_hierarchical_gaps and its three rules; None is <<>>, a gap g is <<g>> *)

HierarchicalGap(kind, ids, a, b, level_a, level_b, missing_level, gap_type) ==
    [id |-> [kind |-> kind, names |-> ids],
     architecture_a |-> a, architecture_b |-> b,
     level_a |-> level_a, level_b |-> level_b,
     missing_level |-> missing_level, gap_type |-> gap_type]

\* MissingIndex rounding the midpoint up
MissingIndex_ceil(idx_parent, idx_child) == (idx_parent + idx_child + 1) \div 2

\* MissingIndex one level too high
MissingIndex_above(idx_parent, idx_child) == (idx_parent + idx_child) \div 2 + 1

\* missing_idx = (idx_parent + idx_child) // 2
MissingIndex(idx_parent, idx_child) == (idx_parent + idx_child) \div 2

identify_missing_intermediate(parent_name, child_name, parent_level, child_level) ==
    LET idx_parent == ListIndex(parent_level)
        idx_child == ListIndex(child_level)
        missing_idx == MissingIndex(idx_parent, idx_child)
    IN IF idx_parent = -1 \/ idx_child = -1 THEN <<>>
       ELSE IF Abs(idx_parent - idx_child) <= 1 THEN <<>>
       ELSE <<HierarchicalGap("gap_intermediate", <<parent_name, child_name>>,
                  parent_name, child_name, parent_level, child_level,
                  hierarchy_order[missing_idx + 1], "missing_intermediate")>>

\* [rel.parent_architecture for rel in relationships if rel.child_architecture == peer]
ParentsOf(peer, rels) ==
    {rels[i].parent_architecture : i \in {k \in 1..Len(rels) : rels[k].child_architecture = peer}}

\* have_common_parent with any() for all(): some peer has a parent
have_common_parent_any(peers, rels) ==
    \E i \in 1..Len(peers) : ParentsOf(peers[i], rels) # {}

\* "if all(parents[peer] for peer in peers)" and the intersection is not empty
have_common_parent(peers, rels) ==
    LET common == {p \in ParentsOf(peers[1], rels) :
                      \A i \in 1..Len(peers) : p \in ParentsOf(peers[i], rels)}
    IN /\ \A i \in 1..Len(peers) : ParentsOf(peers[i], rels) # {}
       /\ common # {}

check_missing_common_parent(peers, level, rels) ==
    LET idx_current == ListIndex(level)
    IN IF have_common_parent(peers, rels) THEN <<>>
       ELSE IF idx_current = -1 THEN <<>>
       ELSE IF idx_current < Len(hierarchy_order) - 1
       THEN <<HierarchicalGap("gap_common_parent", SubSeq(peers, 1, Min(3, Len(peers))),
                  peers[1], IF Len(peers) > 1 THEN peers[2] ELSE peers[1],
                  level, level, hierarchy_order[idx_current + 2], "missing_parent")>>
       ELSE <<>>

identify_missing_parent(arch_name, metadata) ==
    LET level == metadata.inferred_level
        idx_current == ListIndex(level)
    IN IF level = ENTERPRISE THEN <<>>
       ELSE IF idx_current = -1 THEN <<>>
       ELSE IF idx_current < Len(hierarchy_order) - 1
       THEN <<HierarchicalGap("gap_parent", <<arch_name>>, arch_name, <<"unknown">>,
                  level, "unknown", hierarchy_order[idx_current + 2], "missing_parent")>>
       ELSE <<>>

RECURSIVE Flatten(_)
\* the gaps appended in loop order, None results skipped
Flatten(ss) == IF ss = <<>> THEN <<>> ELSE ss[1] \o Flatten(Tail(ss))

\* the keys of peers_by_level in insertion order: positions where a level first appears
FirstOfLevel(meta) ==
    SelectWhere([i \in 1..Len(meta) |-> i],
                {i \in 1..Len(meta) :
                    \A j \in 1..(i - 1) : meta[j].inferred_level # meta[i].inferred_level})

\* peers_by_level[level]: the names at that level, in list order
PeersAt(meta, level) ==
    SelectWhere([i \in 1..Len(meta) |-> meta[i].architecture_name],
                {i \in 1..Len(meta) : meta[i].inferred_level = level})

\* Case 1: non-adjacent levels with no intermediate
NonAdjacentGaps(rels) ==
    Flatten([i \in 1..Len(rels) |->
        IF rels[i].relationship_type = NESTED_INDIRECT
        THEN identify_missing_intermediate(rels[i].parent_architecture,
                 rels[i].child_architecture, rels[i].parent_level, rels[i].child_level)
        ELSE <<>>])

\* Case 2: multiple peers with no common parent
CommonParentGaps(meta, rels) ==
    LET firsts == FirstOfLevel(meta)
    IN Flatten([k \in 1..Len(firsts) |->
        LET level == meta[firsts[k]].inferred_level
            peers == PeersAt(meta, level)
        IN IF Len(peers) > 1 THEN check_missing_common_parent(peers, level, rels)
           ELSE <<>>])

\* Case 3: leaf architectures with no parent
OrphanGaps(archs, meta, rels) ==
    Flatten([i \in 1..Len(archs) |->
        LET has_parent == \E k \in 1..Len(rels) : rels[k].child_architecture = archs[i].name
        IN IF ~has_parent THEN identify_missing_parent(archs[i].name, meta[i])
           ELSE <<>>])

\* discover_hierarchical_gaps dropping a gap whose architecture_a and gap_type an
\* earlier gap already has
discover_hierarchical_gaps_dedup(archs, rels) ==
    LET meta == [i \in 1..Len(archs) |-> infer_hierarchy_level(archs[i])]
        all == NonAdjacentGaps(rels) \o CommonParentGaps(meta, rels)
                  \o OrphanGaps(archs, meta, rels)
    IN SelectWhere(all,
           {i \in 1..Len(all) :
               \A j \in 1..(i - 1) :
                   \/ all[j].architecture_a # all[i].architecture_a
                   \/ all[j].gap_type # all[i].gap_type})

\* hierarchy_metadata is inferred again inside; it is held by position, the
\* names of a list being distinct
discover_hierarchical_gaps(archs, rels) ==
    LET meta == [i \in 1..Len(archs) |-> infer_hierarchy_level(archs[i])]
    IN NonAdjacentGaps(rels) \o CommonParentGaps(meta, rels) \o OrphanGaps(archs, meta, rels)

-----------------------------------------------------------------------------
(* The inputs *)

Arch(name, hierarchy_level, components, description, scope, id, subarchitectures) ==
    [name |-> name, hierarchy_level |-> hierarchy_level, components |-> components,
     description |-> description, scope |-> scope, id |-> id,
     subarchitectures |-> subarchitectures]

\* tier_to_level.get(hierarchical_tier, None)
tier_to_level(hierarchical_tier) ==
    CASE hierarchical_tier = "tier_0_components" -> COMPONENT
      [] hierarchical_tier = "tier_1_systems" -> SYSTEM
      [] hierarchical_tier = "tier_2_system_of_systems" -> SYSTEM_OF_SYSTEMS
      [] hierarchical_tier = "tier_3_enterprise" -> ENTERPRISE
      [] hierarchical_tier = "component" -> COMPONENT
      [] hierarchical_tier = "subsystem" -> SUBSYSTEM
      [] hierarchical_tier = "system" -> SYSTEM
      [] hierarchical_tier = "system_of_systems" -> SYSTEM_OF_SYSTEMS
      [] hierarchical_tier = "enterprise" -> ENTERPRISE
      [] OTHER -> NoneVal

\* a node of graph['graph']['nodes']: name, functions (their number) and, under
\* raw, description and hierarchical_tier ("" when absent)
Node(name, functions, description, hierarchical_tier) ==
    [name |-> name, functions |-> functions, description |-> description,
     hierarchical_tier |-> hierarchical_tier]

\* graph_to_architectures: hierarchy_level is set only when the tier is mapped;
\* scope, id and subarchitectures are never set
graph_to_architectures(nodes) ==
    [i \in 1..Len(nodes) |->
        Arch(nodes[i].name, tier_to_level(nodes[i].hierarchical_tier),
             nodes[i].functions, nodes[i].description, "", NoneVal, <<>>)]

TierValues ==
    {"", "tier_0_components", "tier_1_systems", "tier_2_system_of_systems",
     "tier_3_enterprise", "component", "subsystem", "system", "system_of_systems",
     "enterprise", "tier_9"}

Vocabulary == {"part", "subsystem", "Platform", "enterprise", "axle"}

\* the texts of exactly k words
Texts(k) == [1..k -> Vocabulary]

\* len(arch['components']): both ends of every typical_component_count range and a
\* value on either side of each
CountValues == {0, 1, 5, 10, 20, 21, 50, 51, 100, 200, 201, 1000, 1001}

ScopeValues == {"", "single_responsibility", "Multiple_Systems", "organization_level", "other"}

DeclaredValues ==
    {COMPONENT, SUBSYSTEM, SYSTEM, SYSTEM_OF_SYSTEMS, ENTERPRISE, UNKNOWN, "tier_9"}

\* architectures told apart by level alone: an undeclared one per outcome of the
\* component-count signal, and declared ones
LevelChoices ==
    {[hierarchy_level |-> NoneVal, components |-> c] : c \in {0, 1, 21, 60, 201, 1001}}
    \cup
    {[hierarchy_level |-> l, components |-> 1] : l \in {SYSTEM_OF_SYSTEMS, "tier_9"}}

ArchNames == << <<"A">>, <<"C">>, <<"B">>, <<"D">>, <<"E">> >>
ArchIds == <<"id_a", "id_c", "id_b", "id_d", "id_e">>

\* a subarchitectures entry of one side of a pair: the other side by name, the
\* other side by id, or a stranger
SubEntries(k) ==
    {[name |-> ArchNames[k], id |-> NoneVal],
     [name |-> NoName, id |-> ArchIds[k]],
     [name |-> <<"Z">>, id |-> NoneVal]}

\* the subarchitectures lists of at most MaxSubarchitectures entries
SubLists(k) == UNION {[1..n -> SubEntries(k)] : n \in 0..MaxSubarchitectures}

-----------------------------------------------------------------------------
(* The operations *)

NoMetadata == [n \in {} |-> NoneVal]

\* no CLI, no WorkflowRunner and no ArchitectureValidator is in play
NoCli ==
    /\ invocation = <<>>
    /\ exit_code = <<>>
    /\ stderr = <<>>
    /\ effects = {}

NoWorkflow ==
    /\ workflow_data = <<>>
    /\ working_memory = <<>>
    /\ tracker = <<>>
    /\ tracker_writes = <<>>
    /\ current_step_id = NoneVal

NoValidator ==
    /\ validator = <<>>
    /\ cycles_found = <<>>

NoTools == NoCli /\ NoWorkflow /\ NoValidator

\* no solver is in play
NoSolver ==
    /\ system_a = <<>>
    /\ system_c = <<>>
    /\ solution = <<>>
    /\ layers = <<>>

\* no GraphSystem is in play
NoGraph ==
    /\ data = <<>>
    /\ system = <<>>
    /\ raised = ""
    /\ call = <<>>
    /\ ncalls = 0

Loaded(archs) ==
    /\ NoGraph
    /\ NoSolver
    /\ NoTools
    /\ architectures = archs
    /\ hierarchy_metadata = NoMetadata
    /\ relationships = <<>>
    /\ gaps = <<>>
    /\ pc = "loaded"
    /\ relAB = <<>>
    /\ relBA = <<>>
    /\ gapAB = <<>>

\* analyze_graph / demo: "Infer hierarchy levels"
InferLevels ==
    /\ pc = "loaded"
    /\ hierarchy_metadata' =
          [n \in {architectures[i].name : i \in 1..Len(architectures)} |->
              LET last == CHOOSE i \in 1..Len(architectures) :
                              /\ architectures[i].name = n
                              /\ \A j \in (i + 1)..Len(architectures) :
                                    architectures[j].name # n
              IN infer_hierarchy_level(architectures[last])]
    /\ pc' = "inferred"
    /\ UNCHANGED <<architectures, relationships, gaps, relAB, relBA, gapAB, graph_vars, solver_vars, tool_vars>>

RECURSIVE PairsFrom(_, _, _)
\* for i, arch_a in enumerate(architectures): for arch_b in architectures[i+1:]
PairsFrom(i, j, n) ==
    IF i >= n THEN <<>>
    ELSE IF j > n THEN PairsFrom(i + 1, i + 2, n)
    ELSE << <<i, j>> >> \o PairsFrom(i, j + 1, n)

\* analyze_graph / demo: "Analyze relationships"
AnalyzeRelationships ==
    /\ pc = "inferred"
    /\ relationships' =
          LET ps == PairsFrom(1, 2, Len(architectures))
          IN [k \in 1..Len(ps) |->
                analyze_relationship(
                    architectures[ps[k][1]], architectures[ps[k][2]],
                    hierarchy_metadata[architectures[ps[k][1]].name],
                    hierarchy_metadata[architectures[ps[k][2]].name])]
    /\ pc' = "related"
    /\ UNCHANGED <<architectures, hierarchy_metadata, gaps, relAB, relBA, gapAB, graph_vars, solver_vars, tool_vars>>

\* analyze_graph / demo: "Discover gaps"
DiscoverGaps ==
    /\ pc = "related"
    /\ gaps' = discover_hierarchical_gaps(architectures, relationships)
    /\ pc' = "done"
    /\ UNCHANGED <<architectures, hierarchy_metadata, relationships, relAB, relBA, gapAB, graph_vars, solver_vars, tool_vars>>

\* a caller's analyze_relationship(A, B, meta_A, meta_B)
AnalyzeAB ==
    /\ pc = "inferred"
    /\ relAB = <<>>
    /\ relAB' = <<analyze_relationship(architectures[1], architectures[2],
                     hierarchy_metadata[architectures[1].name],
                     hierarchy_metadata[architectures[2].name])>>
    /\ UNCHANGED <<architectures, hierarchy_metadata, relationships, gaps, pc, relBA, gapAB, graph_vars, solver_vars, tool_vars>>

\* a caller's analyze_relationship(B, A, meta_B, meta_A)
AnalyzeBA ==
    /\ pc = "inferred"
    /\ relBA = <<>>
    /\ relBA' = <<analyze_relationship(architectures[2], architectures[1],
                     hierarchy_metadata[architectures[2].name],
                     hierarchy_metadata[architectures[1].name])>>
    /\ UNCHANGED <<architectures, hierarchy_metadata, relationships, gaps, pc, relAB, gapAB, graph_vars, solver_vars, tool_vars>>

\* a caller's _identify_missing_intermediate(A, B, level of A, level of B)
IdentifyMissingIntermediate ==
    /\ pc = "inferred"
    /\ gapAB = <<>>
    /\ gapAB' = <<identify_missing_intermediate(
                     architectures[1].name, architectures[2].name,
                     hierarchy_metadata[architectures[1].name].inferred_level,
                     hierarchy_metadata[architectures[2].name].inferred_level)>>
    /\ UNCHANGED <<architectures, hierarchy_metadata, relationships, gaps, pc, relAB, relBA, graph_vars, solver_vars, tool_vars>>

-----------------------------------------------------------------------------
(* The specifications *)

\* analyze_graph on a list of 1..MaxArchs architectures, named by position
Init ==
    \E n \in 1..MaxArchs : \E lv \in [1..n -> LevelChoices] :
        Loaded([i \in 1..n |->
                   Arch(ArchNames[i], lv[i].hierarchy_level, lv[i].components,
                        <<>>, "", NoneVal, <<>>)])
Next == InferLevels \/ AnalyzeRelationships \/ DiscoverGaps
Spec == Init /\ [][Next]_vars

\* infer_hierarchy_level on one architecture: undeclared ones whose name and
\* description have at most MaxWords words together, declared ones, and the ones
\* graph_to_architectures makes of a node
InitInfer ==
    \/ \E k \in 0..MaxWords : \E kn \in 0..k :
         \E n \in Texts(kn), d \in Texts(k - kn), c \in CountValues, s \in ScopeValues :
            Loaded(<<Arch(n, NoneVal, c, d, s, NoneVal, <<>>)>>)
    \/ \E c \in CountValues, s \in ScopeValues :
            Loaded(<<Arch(<<"axle">>, "", c, <<>>, s, NoneVal, <<>>)>>)
    \/ \E n \in Texts(1), l \in DeclaredValues, c \in {0, 1, 1001} :
         \E d \in {<<>>, <<"enterprise">>}, s \in {"", "organization_level"} :
            Loaded(<<Arch(n, l, c, d, s, NoneVal, <<>>)>>)
    \/ \E n \in {<<"axle">>, <<"Platform">>}, f \in {0, 1, 60} :
         \E d \in {<<>>, <<"part">>}, t \in TierValues :
            Loaded(graph_to_architectures(<<Node(n, f, d, t)>>))
NextInfer == InferLevels
SpecInfer == InitInfer /\ [][NextInfer]_vars

\* analyze_relationship and _identify_missing_intermediate on a pair, in both orders
InitPair ==
    \E lx \in LevelChoices, ly \in LevelChoices :
      \E ix \in {NoneVal, ArchIds[1]}, iy \in {NoneVal, ArchIds[3]} :
        \E sx \in SubLists(3), sy \in SubLists(1) :
            Loaded(<<Arch(ArchNames[1], lx.hierarchy_level, lx.components, <<>>, "", ix, sx),
                     Arch(ArchNames[3], ly.hierarchy_level, ly.components, <<>>, "", iy, sy)>>)
NextPair == InferLevels \/ AnalyzeAB \/ AnalyzeBA \/ IdentifyMissingIntermediate
SpecPair == InitPair /\ [][NextPair]_vars

\* analyze_graph on a pair whose architectures carry ids and subarchitectures
SpecNested == InitPair /\ [][Next]_vars

-----------------------------------------------------------------------------
(* What the claims speak of *)

Taxonomy == {COMPONENT, SUBSYSTEM, SYSTEM, SYSTEM_OF_SYSTEMS, ENTERPRISE}

\* the ordinal of a taxonomy level: component < subsystem < system <
\* system_of_systems < enterprise
Ordinal(level) ==
    CASE level = COMPONENT -> 0
      [] level = SUBSYSTEM -> 1
      [] level = SYSTEM -> 2
      [] level = SYSTEM_OF_SYSTEMS -> 3
      [] level = ENTERPRISE -> 4

\* the inferred level of the i-th architecture, once the levels are inferred
InferredLevel(i) == hierarchy_metadata[architectures[i].name].inferred_level

\* both sides of the pair are at taxonomy levels whose ordinals differ by d
PairResolved ==
    /\ pc = "inferred"
    /\ Len(architectures) = 2
    /\ InferredLevel(1) \in Taxonomy
    /\ InferredLevel(2) \in Taxonomy

PairDistance == Abs(Ordinal(InferredLevel(1)) - Ordinal(InferredLevel(2)))

\* the side of the pair with the higher ordinal, and the other one
HigherSide == IF Ordinal(InferredLevel(1)) > Ordinal(InferredLevel(2)) THEN 1 ELSE 2
LowerSide == IF Ordinal(InferredLevel(1)) > Ordinal(InferredLevel(2)) THEN 2 ELSE 1

ParentChildTypes == {PARENT_CHILD, CHILD_PARENT}

-----------------------------------------------------------------------------
(* C1 *)

\* what C1 asks of one result of analyze_relationship
HigherOrdinalIsParent(r) ==
    /\ r.relationship_type \in ParentChildTypes
    /\ r.parent_architecture = architectures[HigherSide].name
    /\ r.child_architecture = architectures[LowerSide].name
    /\ r.direct_containment = TRUE

\* C1: when the two levels are taxonomy levels whose ordinals differ by exactly 1,
\* analyze_relationship returns, in either order of the arguments, a parent-child
\* relationship whose parent_architecture is the higher-ordinal architecture and
\* whose child_architecture is the lower-ordinal one, with direct_containment true.
C1_HigherOrdinalIsParent ==
    (PairResolved /\ PairDistance = 1) =>
        /\ relAB # <<>> => HigherOrdinalIsParent(relAB[1])
        /\ relBA # <<>> => HigherOrdinalIsParent(relBA[1])

-----------------------------------------------------------------------------
(* C2 *)

-----------------------------------------------------------------------------
(* C7 *)

\* C7: for taxonomy levels i and j, _identify_missing_intermediate gives no gap
\* when |i - j| <= 1, and when |i - j| > 1 a missing_intermediate gap whose
\* missing_level has the ordinal floor((i + j) / 2), strictly between i and j.
C7_MidpointStrictlyBetween ==
    (PairResolved /\ gapAB # <<>>) =>
        LET i == Ordinal(InferredLevel(1))
            j == Ordinal(InferredLevel(2))
            g == gapAB[1]
        IN IF PairDistance <= 1 THEN g = <<>>
           ELSE /\ Len(g) = 1
                /\ g[1].gap_type = "missing_intermediate"
                /\ g[1].missing_level \in Taxonomy
                /\ Ordinal(g[1].missing_level) = (i + j) \div 2
                /\ Ordinal(g[1].missing_level) > Min(i, j)
                /\ Ordinal(g[1].missing_level) < (i + j) - Min(i, j)

\* a gap was computed between levels three apart, where the midpoint is rounded
C7_Witness ==
    /\ PairResolved /\ gapAB # <<>>
    /\ PairDistance = 3
    /\ Len(gapAB[1]) = 1

-----------------------------------------------------------------------------
(* The pipeline's results *)

Done == pc = "done"

ArchCount == Len(architectures)

\* the architectures inferred at a level
MembersAt(level) == {i \in 1..ArchCount : InferredLevel(i) = level}

InferredLevels == {InferredLevel(i) : i \in 1..ArchCount}

\* some name is parent_architecture, in the relationship set, of every member
\* of the level's group
SharedParent(level) ==
    \E k \in 1..Len(relationships) :
        \A i \in MembersAt(level) :
            \E m \in 1..Len(relationships) :
                /\ relationships[m].child_architecture = architectures[i].name
                /\ relationships[m].parent_architecture =
                      relationships[k].parent_architecture

\* the next level up from a taxonomy level below the top
NextLevelUp(level) ==
    CASE level = COMPONENT -> SUBSYSTEM
      [] level = SUBSYSTEM -> SYSTEM
      [] level = SYSTEM -> SYSTEM_OF_SYSTEMS
      [] level = SYSTEM_OF_SYSTEMS -> ENTERPRISE

GapsWhere(kind) == {g \in 1..Len(gaps) : gaps[g].id.kind = kind}

\* the common-parent gaps of a level's group
CommonParentGapsAt(level) ==
    {g \in GapsWhere("gap_common_parent") : gaps[g].level_a = level}

\* a common-parent gap as C5 describes it
IsCommonParentGap(g, level) ==
    /\ gaps[g].gap_type = "missing_parent"
    /\ gaps[g].level_b = level
    /\ level \in Taxonomy \ {ENTERPRISE}
    /\ gaps[g].missing_level = NextLevelUp(level)

-----------------------------------------------------------------------------
(* C3 *)

C3Input ==
    <<Arch(<<"A">>, NoneVal, 1, <<>>, "", NoneVal, <<>>),
      Arch(<<"C">>, NoneVal, 60, <<>>, "", NoneVal, <<>>)>>

IntermediateGaps == {g \in 1..Len(gaps) : gaps[g].gap_type = "missing_intermediate"}

\* C3 as stated: for A with 1 component and C with 60 components, the gaps
\* report a missing-intermediate gap whose missing_level is exactly "system".
C3_MissingLevelSystem ==
    (Done /\ architectures = C3Input) =>
        /\ IntermediateGaps # {}
        /\ \A g \in IntermediateGaps : gaps[g].missing_level = SYSTEM

\* C3 as amended: for A with 1 component and C with 60 components, the gaps
\* report a missing-intermediate gap whose missing_level is exactly "subsystem".
C3_MissingLevelSubsystem ==
    (Done /\ architectures = C3Input) =>
        /\ IntermediateGaps # {}
        /\ \A g \in IntermediateGaps : gaps[g].missing_level = SUBSYSTEM

\* the gaps of the pair A, C were discovered: A is a component, C a system
C3_Witness ==
    /\ Done /\ architectures = C3Input
    /\ InferredLevel(1) = COMPONENT /\ InferredLevel(2) = SYSTEM
    /\ \E g \in IntermediateGaps :
          gaps[g].architecture_a = <<"A">> /\ gaps[g].architecture_b = <<"C">>

-----------------------------------------------------------------------------
(* C4 *)

\* the architecture is child_architecture of a relationship that has a parent
\* and a child: parent_child, child_parent or nested_indirect, not peer
ChildOfParentChild(i) ==
    \E k \in 1..Len(relationships) :
        /\ relationships[k].relationship_type \in ParentChildTypes \cup {NESTED_INDIRECT}
        /\ relationships[k].child_architecture = architectures[i].name

\* the missing_parent gaps that hypothesise an unknown parent of the architecture
MissingParentGapsOf(i) ==
    {g \in 1..Len(gaps) :
        /\ gaps[g].gap_type = "missing_parent"
        /\ gaps[g].architecture_a = architectures[i].name
        /\ gaps[g].architecture_b = <<"unknown">>}

\* C4, for the architectures classified at a taxonomy level: every architecture
\* that is the child of no parent-child relationship and is not at the enterprise
\* level gets exactly one missing_parent gap that references it; an architecture
\* at the enterprise level gets none.
C4_OrphanGetsOneMissingParentGap ==
    Done =>
        \A i \in 1..ArchCount :
            InferredLevel(i) \in Taxonomy =>
                /\ InferredLevel(i) = ENTERPRISE => MissingParentGapsOf(i) = {}
                /\ (~ChildOfParentChild(i) /\ InferredLevel(i) # ENTERPRISE)
                      => Cardinality(MissingParentGapsOf(i)) = 1

-----------------------------------------------------------------------------
(* C5 *)

\* C5 as stated: for every inferred level with at least 2 architectures, a
\* common-parent gap (missing_parent, missing_level the next level up) is emitted
\* if and only if the members share no common parent in the relationship set and
\* the level is not the top level.
C5_CommonParentGapIff ==
    Done =>
        \A level \in InferredLevels :
            Cardinality(MembersAt(level)) >= 2 =>
                ((\E g \in CommonParentGapsAt(level) : IsCommonParentGap(g, level))
                    <=> (~SharedParent(level) /\ level # ENTERPRISE))

\* C5 as amended: for every inferred level with at least 2 architectures, a
\* common-parent gap (missing_parent, missing_level the next level up) is emitted
\* if and only if the level is one of the five taxonomy levels, the members share
\* no common parent in the relationship set and the level is not the top level;
\* a group whose level is not in the taxonomy ("unknown") gets no such gap.
C5_CommonParentGapIffTaxonomy ==
    Done =>
        \A level \in InferredLevels :
            Cardinality(MembersAt(level)) >= 2 =>
                /\ (\E g \in CommonParentGapsAt(level) : IsCommonParentGap(g, level))
                      <=> (/\ level \in Taxonomy
                           /\ ~SharedParent(level)
                           /\ level # ENTERPRISE)
                /\ \A g \in CommonParentGapsAt(level) : IsCommonParentGap(g, level)
                /\ Cardinality(CommonParentGapsAt(level)) <= 1

\* two peers share a common parent and no common-parent gap was emitted for them
C5_Witness ==
    /\ Done
    /\ \E level \in Taxonomy :
          /\ Cardinality(MembersAt(level)) >= 2
          /\ SharedParent(level)
          /\ CommonParentGapsAt(level) = {}

-----------------------------------------------------------------------------
(* C6 *)

NestedIndirect == {k \in 1..Len(relationships) :
                      relationships[k].relationship_type = NESTED_INDIRECT}

\* the groups the common-parent rule reports
GroupsWithoutParent ==
    {level \in (Taxonomy \ {ENTERPRISE}) \cap InferredLevels :
        Cardinality(MembersAt(level)) >= 2 /\ ~SharedParent(level)}

\* the architectures the orphan rule reports
Orphans ==
    {i \in 1..ArchCount :
        /\ InferredLevel(i) \in Taxonomy \ {ENTERPRISE}
        /\ \A k \in 1..Len(relationships) :
              relationships[k].child_architecture # architectures[i].name}

RuleRank(g) ==
    CASE gaps[g].id.kind = "gap_intermediate" -> 1
      [] gaps[g].id.kind = "gap_common_parent" -> 2
      [] gaps[g].id.kind = "gap_parent" -> 3

\* C6: the gaps hold exactly one missing_intermediate gap for every
\* nested-indirect relationship, and they are the gaps of the non-adjacent rule,
\* then those of the common-parent rule, then those of the orphan rule, none
\* removed or merged.
C6_ThreeRulesConcatenated ==
    Done =>
        /\ \A k \in NestedIndirect :
              Cardinality({g \in IntermediateGaps :
                  /\ gaps[g].architecture_a = relationships[k].parent_architecture
                  /\ gaps[g].architecture_b = relationships[k].child_architecture}) = 1
        /\ IntermediateGaps = GapsWhere("gap_intermediate")
        /\ Cardinality(GapsWhere("gap_intermediate")) = Cardinality(NestedIndirect)
        /\ Cardinality(GapsWhere("gap_common_parent")) = Cardinality(GroupsWithoutParent)
        /\ Cardinality(GapsWhere("gap_parent")) = Cardinality(Orphans)
        /\ Len(gaps) = Cardinality(NestedIndirect) + Cardinality(GroupsWithoutParent)
                          + Cardinality(Orphans)
        /\ \A g \in 1..Len(gaps) : \A h \in (g + 1)..Len(gaps) : RuleRank(g) <= RuleRank(h)

\* the three rules all reported, and the common-parent rule and the orphan rule
\* name the same architecture
C6_Witness ==
    /\ Done
    /\ IntermediateGaps # {}
    /\ \E g \in GapsWhere("gap_common_parent") : \E h \in GapsWhere("gap_parent") :
          gaps[g].architecture_a = gaps[h].architecture_a

-----------------------------------------------------------------------------
(* C8 *)

\* what C8 asks of the relationship of a pair with an unresolved level
IsUnrelated(r) ==
    /\ r.relationship_type = UNRELATED
    /\ r.confidence = 0
    /\ r.direct_containment = FALSE
    /\ \E e \in 1..Len(r.evidence) : r.evidence[e].kind = "level_unknown"

\* C8: a pair of which either level is unresolved is related as unrelated, with
\* confidence 0, direct_containment false and the evidence that the level could
\* not be determined; neither analyze_relationship nor discover_hierarchical_gaps
\* fails on such inputs: every pair gets its relationship, and the gaps are built
\* from resolved levels only.
C8_UnknownIsUnrelated ==
    /\ pc \in {"related", "done"} =>
          LET ps == PairsFrom(1, 2, ArchCount)
          IN /\ Len(relationships) = Len(ps)
             /\ \A k \in 1..Len(ps) :
                   (\/ InferredLevel(ps[k][1]) \notin Taxonomy
                    \/ InferredLevel(ps[k][2]) \notin Taxonomy)
                      => IsUnrelated(relationships[k])
    /\ Done =>
          \A g \in 1..Len(gaps) :
              /\ gaps[g].level_a \in Taxonomy
              /\ gaps[g].missing_level \in Taxonomy

\* the gaps were discovered for a list with two architectures of unknown level
\* and one of a known level
C8_Witness ==
    /\ Done
    /\ Cardinality(MembersAt(UNKNOWN)) >= 2
    /\ \E i \in 1..ArchCount : InferredLevel(i) \in Taxonomy

-----------------------------------------------------------------------------
(* C9 and C10 *)

\* the architecture handed to infer_hierarchy_level declares no level
Undeclared == architectures[1].hierarchy_level \in {NoneVal, ""}

Inferred == pc = "inferred" /\ Len(architectures) = 1

\* the four signals of a level
CountSignal(a, level) ==
    /\ level_indicators[level].lo <= a.components
    /\ level_indicators[level].bounded => a.components <= level_indicators[level].hi

NameSignal(a, level) ==
    \E k \in 1..Len(level_indicators[level].keywords) :
        KeywordIn(level_indicators[level].keywords[k], a.name)

DescriptionSignal(a, level) ==
    \E k \in 1..Len(level_indicators[level].keywords) :
        KeywordIn(level_indicators[level].keywords[k], a.description)

ScopeSignal(a, level) == Lower(a.scope) = level_indicators[level].scope

\* the sum of the weights of the signals that fire, in exact arithmetic
ExactScore(a, level) ==
    (IF CountSignal(a, level) THEN W_COUNT ELSE 0)
    + (IF NameSignal(a, level) THEN W_NAME ELSE 0)
    + (IF DescriptionSignal(a, level) THEN W_DESCRIPTION ELSE 0)
    + (IF ScopeSignal(a, level) THEN W_SCOPE ELSE 0)

\* the kinds of the signals that fire, in the order they are tested
FiredSignals(a, level) ==
    (IF CountSignal(a, level) THEN <<"count">> ELSE <<>>)
    \o (IF NameSignal(a, level) THEN <<"name">> ELSE <<>>)
    \o (IF DescriptionSignal(a, level) THEN <<"description">> ELSE <<>>)
    \o (IF ScopeSignal(a, level) THEN <<"scope">> ELSE <<>>)

BestExactScore(a) ==
    CHOOSE x \in {ExactScore(a, l) : l \in Taxonomy} :
        \A l \in Taxonomy : ExactScore(a, l) <= x

\* the result is a level of maximal score, with that score as confidence and
\* the signals of that level as evidence
IsBestLevel(a, m) ==
    /\ m.inferred_level \in Taxonomy
    /\ \A l \in Taxonomy : ExactScore(a, l) <= ExactScore(a, m.inferred_level)
    /\ m.confidence = LevelScore(a, m.inferred_level).score
    /\ Abs(m.confidence - ExactScore(a, m.inferred_level)) <= 1
    /\ [e \in 1..Len(m.evidence) |-> m.evidence[e].kind] = FiredSignals(a, m.inferred_level)
    /\ \A e \in 1..Len(m.evidence) : m.evidence[e].level = m.inferred_level

GenericEvidence == <<Ev("insufficient", "", "", 0)>>

\* C9 as stated: with no level declared, the result is a level whose score (the
\* sum of +0.4 count, +0.3 name, +0.2 description, +0.1 scope) is maximal, the
\* confidence is that score and the evidence is exactly the signals that fired
\* for the returned level.
C9_BestLevelReturned ==
    (Inferred /\ Undeclared) =>
        IsBestLevel(architectures[1], hierarchy_metadata[architectures[1].name])

\* C9 as amended: the same, provided the maximal score is at least 0.3; below
\* 0.3 the level is "unknown", the confidence is still the maximal score and the
\* evidence is the single generic entry.
C9_BestLevelReturnedAboveFloor ==
    (Inferred /\ Undeclared) =>
        LET a == architectures[1]
            m == hierarchy_metadata[a.name]
        IN IF BestExactScore(a) >= UNKNOWN_FLOOR
           THEN IsBestLevel(a, m)
           ELSE /\ m.inferred_level = UNKNOWN
                /\ m.confidence = BestExactScore(a)
                /\ m.evidence = GenericEvidence

\* all four signals fired for the returned level
C9_Witness ==
    /\ Inferred /\ Undeclared
    /\ LET a == architectures[1]
           m == hierarchy_metadata[a.name]
       IN /\ m.inferred_level \in Taxonomy
          /\ Len(m.evidence) = 4
          /\ \E l \in Taxonomy : l # m.inferred_level /\ ExactScore(a, l) >= UNKNOWN_FLOOR

\* C10: with no level declared, the level is "unknown" with the single generic
\* evidence entry if and only if the best score is below 0.3; a best score of
\* exactly 0.3 yields a taxonomy level.
C10_UnknownIffBelowFloor ==
    (Inferred /\ Undeclared) =>
        LET a == architectures[1]
            m == hierarchy_metadata[a.name]
        IN /\ (m.inferred_level = UNKNOWN /\ m.evidence = GenericEvidence)
                 <=> BestExactScore(a) < UNKNOWN_FLOOR
           /\ m.inferred_level = UNKNOWN <=> m.evidence = GenericEvidence
           /\ BestExactScore(a) = UNKNOWN_FLOOR => m.inferred_level \in Taxonomy

\* a best score of exactly 0.3 made of the description keyword and the scope
\* match, which the double sum puts just above 0.3
C10_Witness ==
    /\ Inferred /\ Undeclared
    /\ LET a == architectures[1]
           m == hierarchy_metadata[a.name]
       IN /\ BestExactScore(a) = UNKNOWN_FLOOR
          /\ m.inferred_level \in Taxonomy
          /\ [e \in 1..Len(m.evidence) |-> m.evidence[e].kind] = <<"description", "scope">>

-----------------------------------------------------------------------------
(* C11 *)

Declared == architectures[1].hierarchy_level \notin {NoneVal, ""}

\* the architecture graph_to_architectures makes of a node of that tier
FromNodeOfTier(tier) ==
    \E n \in {<<"axle">>, <<"Platform">>}, f \in {0, 1, 60}, d \in {<<>>, <<"part">>} :
        architectures = graph_to_architectures(<<Node(n, f, d, tier)>>)

\* C11: an architecture that declares a hierarchy_level, directly or as the node
\* tier graph_to_architectures maps (tier_1_systems to system), gets that level
\* as inferred_level, confidence exactly 0.9 and exactly one evidence entry, which
\* cites the declaration, whatever its component count, name, description and scope.
C11_DeclaredLevelTrusted ==
    Inferred =>
        LET a == architectures[1]
            m == hierarchy_metadata[a.name]
        IN /\ Declared =>
                 /\ m.inferred_level = a.hierarchy_level
                 /\ m.declared_level = a.hierarchy_level
                 /\ m.confidence = 9000
                 /\ Len(m.evidence) = 1
                 /\ m.evidence[1].kind = "declared"
                 /\ m.evidence[1].level = a.hierarchy_level
           /\ FromNodeOfTier("tier_1_systems") => m.inferred_level = SYSTEM /\ m.confidence = 9000
           /\ FromNodeOfTier("tier_0_components") => m.inferred_level = COMPONENT /\ m.confidence = 9000
           /\ FromNodeOfTier("tier_2_system_of_systems")
                 => m.inferred_level = SYSTEM_OF_SYSTEMS /\ m.confidence = 9000
           /\ FromNodeOfTier("tier_3_enterprise") => m.inferred_level = ENTERPRISE /\ m.confidence = 9000

\* a node of tier tier_1_systems whose count and description both speak for
\* component was inferred
C11_Witness ==
    /\ Inferred
    /\ FromNodeOfTier("tier_1_systems")
    /\ architectures[1].components = 1
    /\ architectures[1].description = <<"part">>
    /\ hierarchy_metadata[architectures[1].name].inferred_level = SYSTEM

-----------------------------------------------------------------------------
(* C12 *)

\* C12: for every input architecture, with or without a declared level, the
\* metadata infer_hierarchy_level returns has inferred_level among component,
\* subsystem, system, system_of_systems, enterprise and unknown, and a confidence
\* within [0, 1].
C12_LevelAndConfidenceInRange ==
    Inferred =>
        LET m == hierarchy_metadata[architectures[1].name]
        IN /\ m.inferred_level \in Taxonomy \cup {UNKNOWN}
           /\ 0 <= m.confidence /\ m.confidence <= 10000

-----------------------------------------------------------------------------
(* C13 *)

\* the subarchitectures of the i-th architecture list the j-th one by name or
\* by id
ListsChild(i, j) ==
    \E e \in 1..Len(architectures[i].subarchitectures) :
        LET sub == architectures[i].subarchitectures[e]
        IN \/ sub.name = architectures[j].name
           \/ sub.id # NoneVal /\ sub.id = architectures[j].id

\* what C13 asks of one result of analyze_relationship on the pair
DirectIffAdjacentOrListed(r) ==
    LET parent == IF r.parent_architecture = architectures[1].name THEN 1 ELSE 2
        child == 3 - parent
    IN r.direct_containment <=> (PairDistance = 1 \/ ListsChild(parent, child))

\* C13: for two architectures at different resolved levels, in either order of
\* the arguments, direct_containment is true exactly when the levels are adjacent
\* or the parent's subarchitectures list the child by name or by id.
C13_DirectIffAdjacentOrListed ==
    (PairResolved /\ PairDistance >= 1) =>
        /\ relAB # <<>> => DirectIffAdjacentOrListed(relAB[1])
        /\ relBA # <<>> => DirectIffAdjacentOrListed(relBA[1])

-----------------------------------------------------------------------------
(* matrix_gap_detection.py: GraphSystem.  A JSON object is a record of the keys
   the loader reads; an absent key holds NoneVal when its value is an identifier
   and <<>> when it is a number, a list or an object (a present one is <<x>>).
   A weight or a state w stands for the float w.0. *)

MaxNodes == 2
MaxEdges == 2
MaxCalls == 2

\* the JSON number 0 used as an identifier
ZERO_ID == "int 0"

\* bool(v) of an identifier
Truthy(v) == v \notin {NoneVal, "", ZERO_ID}

\* d.get(key, default), on the value held for the key
Get(held, default) == IF held # NoneVal THEN held ELSE default

\* f"node_{i}"
NodeName(i) ==
    CASE i = 0 -> "node_0" [] i = 1 -> "node_1" [] i = 2 -> "node_2"
      [] i = 3 -> "node_3" [] OTHER -> "node_n"

\* f"comp_{i}"
CompName(i) ==
    CASE i = 0 -> "comp_0" [] i = 1 -> "comp_1" [] i = 2 -> "comp_2"
      [] i = 3 -> "comp_3" [] OTHER -> "comp_n"

\* np.zeros((n, n)) and np.zeros(n)
Zeros2(n) == [i \in 1..n |-> [j \in 1..n |-> 0]]
Zeros1(n) == [i \in 1..n |-> 0]

\* GraphSystem(name, nodes) after __post_init__; name and metadata are carried
\* along and read by nothing modelled here
GraphSystem(nodes) ==
    [nodes |-> nodes, adjacency |-> Zeros2(Len(nodes)), node_states |-> Zeros1(Len(nodes))]

\* self.nodes.index(x), counted from 1; 0 stands for the ValueError
NodesIndex(nodes, x) ==
    IF \E i \in 1..Len(nodes) : nodes[i] = x
    THEN CHOOSE i \in 1..Len(nodes) : nodes[i] = x /\ \A j \in 1..(i - 1) : nodes[j] # x
    ELSE 0

Outcome(exception, sys) == [raised |-> exception, system |-> sys]

\* add_edge writing the transposed entry: self.adjacency[j, i] = weight
add_edge_transposed(sys, from_node, to_node, weight) ==
    LET i == NodesIndex(sys.nodes, from_node)
        j == NodesIndex(sys.nodes, to_node)
    IN IF i = 0 \/ j = 0 THEN Outcome("ValueError: Node not found", sys)
       ELSE Outcome("", [sys EXCEPT !.adjacency[j][i] = weight])

add_edge(sys, from_node, to_node, weight) ==
    LET i == NodesIndex(sys.nodes, from_node)
        j == NodesIndex(sys.nodes, to_node)
    IN IF i = 0 \/ j = 0 THEN Outcome("ValueError: Node not found", sys)
       ELSE Outcome("", [sys EXCEPT !.adjacency[i][j] = weight])

set_node_state(sys, node, state) ==
    LET i == NodesIndex(sys.nodes, node)
    IN IF i = 0 THEN Outcome("ValueError: Node not found", sys)
       ELSE Outcome("", [sys EXCEPT !.node_states[i] = state])

\* the keys of a node or component entry
NodeEntry(id, node_id, name, component_id, state) ==
    [id |-> id, node_id |-> node_id, name |-> name, component_id |-> component_id,
     state |-> state]

\* the keys of an edge entry
EdgeEntry(source, target, from, to, weight, strength) ==
    [source |-> source, target |-> target, from |-> from, to |-> to,
     weight |-> weight, strength |-> strength]

\* the keys of the object that holds the graph
GraphData(isdict, nodes, edges, links, components) ==
    [isdict |-> isdict, nodes |-> nodes, edges |-> edges, links |-> links,
     components |-> components]

\* the keys of the document
Document(graph, system_of_systems_graph, nodes, edges, links, components) ==
    [graph |-> graph, system_of_systems_graph |-> system_of_systems_graph,
     nodes |-> nodes, edges |-> edges, links |-> links, components |-> components]

\* EcosystemNodes reading node_id where the code reads name
EcosystemNodes_node_id(entries) ==
    [k \in 1..Len(entries) |-> Get(entries[k].id, Get(entries[k].node_id, NodeName(k - 1)))]

\* Format 1: [n.get('id', n.get('name', f"node_{i}")) ...]
EcosystemNodes(entries) ==
    [k \in 1..Len(entries) |-> Get(entries[k].id, Get(entries[k].name, NodeName(k - 1)))]

\* Format 2: [n.get('node_id', n.get('id', f"node_{i}")) ...]
SosNodes(entries) ==
    [k \in 1..Len(entries) |-> Get(entries[k].node_id, Get(entries[k].id, NodeName(k - 1)))]

\* Format 3: [n.get('id', n.get('node_id', f"node_{i}")) ...]
SimpleNodes(entries) ==
    [k \in 1..Len(entries) |-> Get(entries[k].id, Get(entries[k].node_id, NodeName(k - 1)))]

\* [c.get('id', c.get('component_id', f"comp_{i}")) ...]
ComponentNodes(entries) ==
    [k \in 1..Len(entries) |->
        Get(entries[k].id, Get(entries[k].component_id, CompName(k - 1)))]

Detected(exception, graph_data, nodes) ==
    [raised |-> exception, graph_data |-> graph_data, nodes |-> nodes]

\* NoNodes going on with an empty graph instead of raising
NoNodes_empty(where) ==
    Detected("", <<GraphData(TRUE, <<>>, <<>>, <<>>, <<>>)>>, <<>>)

\* raise ValueError("No nodes found in ...")
NoNodes(where) == Detected("ValueError: No nodes found in " \o where, <<>>, <<>>)

\* "Format detection and normalization": graph_data and nodes, or the ValueError
DetectFormat(d) ==
    IF d.graph # <<>> /\ d.graph[1].isdict
    THEN LET g == d.graph[1]
             gd == IF g.links # <<>> /\ g.edges = <<>>
                   THEN [g EXCEPT !.edges = g.links, !.links = <<>>]
                   ELSE g
         IN IF gd.nodes # <<>>
            THEN Detected("", <<gd>>, EcosystemNodes(gd.nodes[1]))
            ELSE NoNodes("ecosystem graph")
    ELSE IF d.system_of_systems_graph # <<>>
    THEN LET gd == d.system_of_systems_graph[1]
         IN IF gd.nodes # <<>>
            THEN Detected("", <<gd>>, SosNodes(gd.nodes[1]))
            ELSE NoNodes("system_of_systems_graph")
    ELSE IF d.nodes # <<>>
    THEN Detected("", <<GraphData(TRUE, d.nodes, d.edges, d.links, d.components)>>,
                  SimpleNodes(d.nodes[1]))
    ELSE IF d.components # <<>>
    THEN Detected("", <<GraphData(TRUE, d.nodes, d.edges, d.links, d.components)>>,
                  ComponentNodes(d.components[1]))
    ELSE Detected("ValueError: Unknown graph format", <<>>, <<>>)

\* edge.get('weight', edge.get('strength', 1.0))
EdgeWeight(edge) ==
    IF edge.weight # <<>> THEN edge.weight[1]
    ELSE IF edge.strength # <<>> THEN edge.strength[1]
    ELSE 1

\* edge.get('source', edge.get('from')) and edge.get('target', edge.get('to'))
EdgeSource(edge) == Get(edge.source, edge.from)
EdgeTarget(edge) == Get(edge.target, edge.to)

\* EndpointsGiven comparing with None: "if source is not None and target is not None"
EndpointsGiven_not_none(source, target) == source # NoneVal /\ target # NoneVal

\* "if source and target"
EndpointsGiven(source, target) == Truthy(source) /\ Truthy(target)

\* LoadEdge letting the ValueError of add_edge through
LoadEdge_strict(out, edge) ==
    IF out.raised # "" THEN out
    ELSE IF EndpointsGiven(EdgeSource(edge), EdgeTarget(edge))
    THEN add_edge(out.system, EdgeSource(edge), EdgeTarget(edge), EdgeWeight(edge))
    ELSE Outcome("ValueError: edge without endpoints", out.system)

\* the body of "for edge in graph_data[edges_key]"; the ValueError of add_edge is
\* caught and the edge skipped
LoadEdge(out, edge) ==
    IF EndpointsGiven(EdgeSource(edge), EdgeTarget(edge))
    THEN Outcome("", add_edge(out.system, EdgeSource(edge), EdgeTarget(edge),
                              EdgeWeight(edge)).system)
    ELSE out

RECURSIVE LoadEdges(_, _)
\* "Load edges": the loop over the edges, in order
LoadEdges(out, edges) ==
    IF edges = <<>> THEN out
    ELSE LoadEdges(LoadEdge(out, edges[1]), Tail(edges))

\* the body of "for comp in graph_data['components']"
LoadState(sys, comp) ==
    LET comp_id == Get(comp.id, comp.component_id)
    IN IF comp.state # <<>> /\ Truthy(comp_id)
       THEN set_node_state(sys, comp_id, comp.state[1]).system
       ELSE sys

RECURSIVE LoadStates(_, _)
\* "Load node states if available"
LoadStates(sys, comps) ==
    IF comps = <<>> THEN sys
    ELSE LoadStates(LoadState(sys, comps[1]), Tail(comps))

\* GraphSystem.from_json on the parsed document
from_json(d) ==
    LET det == DetectFormat(d)
    IN IF det.raised # "" THEN Outcome(det.raised, <<>>)
       ELSE LET gd == det.graph_data[1]
                edges == IF gd.edges # <<>> THEN gd.edges[1]
                         ELSE IF gd.links # <<>> THEN gd.links[1]
                         ELSE <<>>
                loaded == LoadEdges(Outcome("", GraphSystem(det.nodes)), edges)
            IN IF loaded.raised # "" THEN Outcome(loaded.raised, <<>>)
               ELSE Outcome("", <<LoadStates(loaded.system,
                                     IF gd.components # <<>> THEN gd.components[1]
                                     ELSE <<>>)>>)

-----------------------------------------------------------------------------
(* The documents *)

NodeEntries ==
    {NodeEntry("a", NoneVal, NoneVal, NoneVal, <<>>),
     NodeEntry("b", NoneVal, NoneVal, NoneVal, <<3>>),
     NodeEntry(ZERO_ID, NoneVal, NoneVal, NoneVal, <<>>),
     NodeEntry(NoneVal, "b", NoneVal, NoneVal, <<>>),
     NodeEntry("a", "b", NoneVal, NoneVal, <<>>),
     NodeEntry(NoneVal, NoneVal, "b", NoneVal, <<>>),
     NodeEntry(NoneVal, NoneVal, NoneVal, "b", <<3>>),
     NodeEntry(NoneVal, NoneVal, NoneVal, NoneVal, <<>>)}

EdgeEntries ==
    {EdgeEntry("a", "b", NoneVal, NoneVal, <<2>>, <<>>),
     EdgeEntry("a", "b", NoneVal, NoneVal, <<5>>, <<>>),
     EdgeEntry(NoneVal, NoneVal, "a", "b", <<>>, <<5>>),
     EdgeEntry("b", "a", NoneVal, NoneVal, <<>>, <<>>),
     EdgeEntry("a", "MISSING_SYSTEM", NoneVal, NoneVal, <<2>>, <<>>),
     EdgeEntry(NoneVal, NoneVal, NoneVal, NoneVal, <<2>>, <<>>),
     EdgeEntry("a", NoneVal, NoneVal, NoneVal, <<2>>, <<>>),
     EdgeEntry(ZERO_ID, "a", NoneVal, NoneVal, <<2>>, <<5>>),
     EdgeEntry("node_0", "a", NoneVal, NoneVal, <<2>>, <<>>)}

\* the lists of at most k entries
ListsOf(entries, k) == UNION {[1..n -> entries] : n \in 0..k}

\* a few node lists and a few edge lists
SomeNodeLists ==
    {<<NodeEntry("a", NoneVal, NoneVal, NoneVal, <<>>),
       NodeEntry("b", NoneVal, NoneVal, NoneVal, <<3>>)>>,
     <<NodeEntry(ZERO_ID, NoneVal, NoneVal, NoneVal, <<>>),
       NodeEntry("a", NoneVal, NoneVal, NoneVal, <<>>)>>,
     <<NodeEntry(NoneVal, NoneVal, NoneVal, NoneVal, <<>>),
       NodeEntry("a", "b", NoneVal, NoneVal, <<>>)>>,
     <<NodeEntry("a", NoneVal, NoneVal, NoneVal, <<>>),
       NodeEntry("a", "b", NoneVal, NoneVal, <<>>)>>}

SomeEdgeLists ==
    {<<>>,
     <<EdgeEntry("a", "b", NoneVal, NoneVal, <<2>>, <<>>)>>,
     <<EdgeEntry("node_0", "a", NoneVal, NoneVal, <<2>>, <<>>)>>}

DocumentShapes ==
    {"graph", "graph_not_dict", "system_of_systems_graph", "nodes", "components",
     "nodes_and_components"}

EdgeKeys == {"edges", "links", "both", "neither"}

\* the document of a shape: nodes is <<>> (no such key) or <<list>>, the edges
\* go under the key(s) edge_key names ("both": links holds another edge)
MakeDocument(shape, nodes, edge_key, edge_list) ==
    LET edges == IF edge_key \in {"edges", "both"} THEN <<edge_list>> ELSE <<>>
        links == IF edge_key = "links" THEN <<edge_list>>
                 ELSE IF edge_key = "both"
                 THEN << <<EdgeEntry("b", "a", NoneVal, NoneVal, <<5>>, <<>>)>> >>
                 ELSE <<>>
    IN CASE shape = "graph" ->
              Document(<<GraphData(TRUE, nodes, edges, links, <<>>)>>, <<>>,
                       <<>>, <<>>, <<>>, <<>>)
         [] shape = "graph_not_dict" ->
              Document(<<GraphData(FALSE, <<>>, <<>>, <<>>, <<>>)>>, <<>>,
                       nodes, edges, links, <<>>)
         [] shape = "system_of_systems_graph" ->
              Document(<<>>, <<GraphData(TRUE, nodes, edges, links, <<>>)>>,
                       <<>>, <<>>, <<>>, <<>>)
         [] shape = "nodes" ->
              Document(<<>>, <<>>, nodes, edges, links, <<>>)
         [] shape = "components" ->
              Document(<<>>, <<>>, <<>>, edges, links, nodes)
         [] shape = "nodes_and_components" ->
              Document(<<>>, <<>>, nodes, edges, links, nodes)

\* identifiers a caller passes to add_edge and set_node_state
CallIds == {"a", "b", "MISSING_SYSTEM"}

-----------------------------------------------------------------------------
(* The operations on a GraphSystem *)

NoMatryoshka ==
    /\ architectures = <<>>
    /\ hierarchy_metadata = NoMetadata
    /\ relationships = <<>>
    /\ gaps = <<>>
    /\ relAB = <<>>
    /\ relBA = <<>>
    /\ gapAB = <<>>

\* a document is about to be loaded
Parsed(d) ==
    /\ NoMatryoshka
    /\ data = d
    /\ system = <<>>
    /\ raised = ""
    /\ call = <<>>
    /\ ncalls = 0
    /\ NoSolver
    /\ NoTools
    /\ pc = "document"

\* a caller is about to construct a GraphSystem from a name and nodes
Blank ==
    /\ NoMatryoshka
    /\ data = Document(<<>>, <<>>, <<>>, <<>>, <<>>, <<>>)
    /\ system = <<>>
    /\ raised = ""
    /\ call = <<>>
    /\ ncalls = 0
    /\ NoSolver
    /\ NoTools
    /\ pc = "blank"

Call(op, from_node, to_node, value) ==
    [op |-> op, from_node |-> from_node, to_node |-> to_node, value |-> value]

\* GraphSystem.from_json(filepath), the file holding the document
FromJson ==
    /\ pc = "document"
    /\ LET out == from_json(data)
       IN /\ system' = out.system
          /\ raised' = out.raised
          /\ pc' = IF out.raised = "" THEN "graph" ELSE "failed"
    /\ call' = <<Call("from_json", NoneVal, NoneVal, 0)>>
    /\ UNCHANGED <<matryoshka_vars, solver_vars, tool_vars, data, ncalls>>

\* GraphSystem(name=..., nodes=...)
Construct ==
    /\ pc = "blank"
    /\ \E nodes \in ListsOf({"a", "b"}, MaxNodes) :
          system' = <<GraphSystem(nodes)>>
    /\ pc' = "graph"
    /\ call' = <<Call("GraphSystem", NoneVal, NoneVal, 0)>>
    /\ UNCHANGED <<matryoshka_vars, solver_vars, tool_vars, data, raised, ncalls>>

\* system.add_edge(from_node, to_node, weight)
AddEdge ==
    /\ pc = "graph"
    /\ ncalls < MaxCalls
    /\ \E from_node \in CallIds, to_node \in CallIds, weight \in {2, 5} :
          LET out == add_edge(system[1], from_node, to_node, weight)
          IN /\ system' = <<out.system>>
             /\ raised' = out.raised
             /\ call' = <<Call("add_edge", from_node, to_node, weight)>>
    /\ ncalls' = ncalls + 1
    /\ UNCHANGED <<matryoshka_vars, solver_vars, tool_vars, data, pc>>

\* system.set_node_state(node, state)
SetNodeState ==
    /\ pc = "graph"
    /\ ncalls < MaxCalls
    /\ \E node \in CallIds, state \in {3, 7} :
          LET out == set_node_state(system[1], node, state)
          IN /\ system' = <<out.system>>
             /\ raised' = out.raised
             /\ call' = <<Call("set_node_state", node, NoneVal, state)>>
    /\ ncalls' = ncalls + 1
    /\ UNCHANGED <<matryoshka_vars, solver_vars, tool_vars, data, pc>>

\* from_json on documents of every shape: every node list with a few edge lists,
\* and every edge list with a few node lists
InitLoad ==
    \E shape \in DocumentShapes, edge_key \in EdgeKeys :
        \/ \E nodes \in {<<>>} \cup {<<l>> : l \in ListsOf(NodeEntries, MaxNodes)} :
             \E edge_list \in SomeEdgeLists :
                Parsed(MakeDocument(shape, nodes, edge_key, edge_list))
        \/ \E node_list \in SomeNodeLists, edge_list \in ListsOf(EdgeEntries, MaxEdges) :
                Parsed(MakeDocument(shape, <<node_list>>, edge_key, edge_list))
NextLoad == FromJson
SpecLoad == InitLoad /\ [][NextLoad]_vars

\* a GraphSystem loaded or constructed, then up to MaxCalls calls made on it
InitGraph ==
    \/ \E shape \in {"graph", "components"}, node_list \in SomeNodeLists :
         \E edge_list \in SomeEdgeLists :
            Parsed(MakeDocument(shape, <<node_list>>, "edges", edge_list))
    \/ Blank
NextGraph == FromJson \/ Construct \/ AddEdge \/ SetNodeState
SpecGraph == InitGraph /\ [][NextGraph]_vars

-----------------------------------------------------------------------------
(* What the claims on GraphSystem speak of *)

\* from_json has returned or raised
AfterFromJson == call # <<>> /\ call[1].op = "from_json"

LoadedGraph == AfterFromJson /\ pc = "graph"

\* the document has one of the recognized top-level keys: a graph object,
\* system_of_systems_graph, nodes, components
HasRecognizedKey ==
    \/ data.graph # <<>> /\ data.graph[1].isdict
    \/ data.system_of_systems_graph # <<>>
    \/ data.nodes # <<>>
    \/ data.components # <<>>

\* the shape the loader takes the document for
ShapeOf ==
    IF data.graph # <<>> /\ data.graph[1].isdict THEN "graph"
    ELSE IF data.system_of_systems_graph # <<>> THEN "system_of_systems_graph"
    ELSE IF data.nodes # <<>> THEN "nodes"
    ELSE IF data.components # <<>> THEN "components"
    ELSE "none"

\* the graph or system_of_systems_graph object the loader reads has no nodes key
GraphObjectWithoutNodes ==
    \/ ShapeOf = "graph" /\ data.graph[1].nodes = <<>>
    \/ ShapeOf = "system_of_systems_graph" /\ data.system_of_systems_graph[1].nodes = <<>>

-----------------------------------------------------------------------------
(* C14 *)

\* C14 as stated: from_json raises if and only if the document has none of the
\* recognized top-level keys; every document with a recognized key loads.
C14_RaisesIffNoRecognizedKey ==
    AfterFromJson => (raised # "" <=> ~HasRecognizedKey)

\* C14 as amended: from_json raises a ValueError if and only if the document
\* has none of the recognized top-level keys, or the graph or
\* system_of_systems_graph object it reads has no nodes key; every other
\* document loads into a GraphSystem.
C14_RaisesIffNoRecognizedKeyOrNoNodes ==
    AfterFromJson =>
        /\ raised # "" <=> (~HasRecognizedKey \/ GraphObjectWithoutNodes)
        /\ raised = "" <=> system # <<>>
        /\ raised = "" <=> pc = "graph"
        /\ ~HasRecognizedKey => raised = "ValueError: Unknown graph format"

\* a document with a graph object that has edges but no nodes was refused
C14_Witness ==
    /\ AfterFromJson
    /\ ShapeOf = "graph" /\ data.graph[1].nodes = <<>> /\ data.graph[1].edges # <<>>
    /\ raised # ""

-----------------------------------------------------------------------------
(* C15 *)

\* the document passes format detection: from_json gets as far as its edges
FormatOk == HasRecognizedKey /\ ~GraphObjectWithoutNodes

\* the object whose nodes, edges, links and components the loader reads
DocGraphData ==
    CASE ShapeOf = "graph" -> data.graph[1]
      [] ShapeOf = "system_of_systems_graph" -> data.system_of_systems_graph[1]
      [] OTHER -> GraphData(TRUE, data.nodes, data.edges, data.links, data.components)

\* the edge entries the loader reads: those under edges, else those under links
DocEdges ==
    IF DocGraphData.edges # <<>> THEN DocGraphData.edges[1]
    ELSE IF DocGraphData.links # <<>> THEN DocGraphData.links[1]
    ELSE <<>>

\* the node entries the loader reads
DocNodeEntries ==
    IF ShapeOf = "components" THEN DocGraphData.components[1] ELSE DocGraphData.nodes[1]

\* the edge has none of source, target, from, to
NoEndpoints(edge) ==
    /\ edge.source = NoneVal /\ edge.target = NoneVal
    /\ edge.from = NoneVal /\ edge.to = NoneVal

MeetsEdgeWithoutEndpoints ==
    AfterFromJson /\ FormatOk /\ \E k \in 1..Len(DocEdges) : NoEndpoints(DocEdges[k])

\* C15 as stated: when from_json meets an edge with none of source, target,
\* from, to, the load fails with an error raised to the caller.
C15_EdgeWithoutEndpointsFails ==
    MeetsEdgeWithoutEndpoints => (raised # "" /\ system = <<>>)

\* C15 as amended: when from_json meets an edge with none of source, target,
\* from, to, it skips the edge without raising: the load succeeds and the
\* adjacency is the one the other edges give.
C15_EdgeWithoutEndpointsSkipped ==
    MeetsEdgeWithoutEndpoints =>
        /\ raised = ""
        /\ system # <<>>
        /\ LET others == SelectWhere(DocEdges,
                             {k \in 1..Len(DocEdges) : ~NoEndpoints(DocEdges[k])})
           IN system[1].adjacency =
                 LoadEdges(Outcome("", GraphSystem(system[1].nodes)), others).system.adjacency

\* an edge without endpoints was met next to an edge that was loaded
C15_Witness ==
    /\ MeetsEdgeWithoutEndpoints
    /\ system # <<>>
    /\ \E i \in 1..Len(system[1].nodes), j \in 1..Len(system[1].nodes) :
          system[1].adjacency[i][j] # 0

-----------------------------------------------------------------------------
(* C16 *)

\* both endpoints of the edge are in the node list
BothEndpointsInNodes(edge) ==
    /\ NodesIndex(system[1].nodes, EdgeSource(edge)) # 0
    /\ NodesIndex(system[1].nodes, EdgeTarget(edge)) # 0

\* the edges that have both endpoints in the node list and go from node i to node j
EdgesAt(i, j) ==
    {k \in 1..Len(DocEdges) :
        /\ BothEndpointsInNodes(DocEdges[k])
        /\ NodesIndex(system[1].nodes, EdgeSource(DocEdges[k])) = i
        /\ NodesIndex(system[1].nodes, EdgeTarget(DocEdges[k])) = j}

\* C16: the loaded adjacency is determined by the edges with both endpoints in
\* the node list alone: entry (index(source), index(target)) holds the weight of
\* the last such edge, every other entry is 0, and the edges with an endpoint
\* outside the node list are dropped without raising.
C16_ResolvableEdgesSetEntries ==
    (AfterFromJson /\ FormatOk) =>
        /\ raised = ""
        /\ system # <<>>
        /\ \A i \in 1..Len(system[1].nodes), j \in 1..Len(system[1].nodes) :
              system[1].adjacency[i][j] =
                 IF EdgesAt(i, j) = {} THEN 0
                 ELSE EdgeWeight(DocEdges[CHOOSE k \in EdgesAt(i, j) :
                                              \A m \in EdgesAt(i, j) : m <= k])

-----------------------------------------------------------------------------
(* C17 *)

\* the identifier C17 gives the k-th node entry: id, else node_id, else node_{k-1}
ClaimedNodeId(entries, k) ==
    IF entries[k].id # NoneVal THEN entries[k].id
    ELSE IF entries[k].node_id # NoneVal THEN entries[k].node_id
    ELSE NodeName(k - 1)

\* the identifier each shape gives the k-th entry
ShapeNodeId(entries, k) ==
    LET e == entries[k]
        first == CASE ShapeOf = "system_of_systems_graph" -> e.node_id [] OTHER -> e.id
        second == CASE ShapeOf = "graph" -> e.name
                    [] ShapeOf = "system_of_systems_graph" -> e.id
                    [] ShapeOf = "nodes" -> e.node_id
                    [] ShapeOf = "components" -> e.component_id
        positional == IF ShapeOf = "components" THEN CompName(k - 1) ELSE NodeName(k - 1)
    IN IF first # NoneVal THEN first
       ELSE IF second # NoneVal THEN second
       ELSE positional

\* the endpoints and the weight C17 gives an edge
ClaimedSource(edge) == IF edge.source # NoneVal THEN edge.source ELSE edge.from
ClaimedTarget(edge) == IF edge.target # NoneVal THEN edge.target ELSE edge.to
ClaimedWeight(edge) ==
    IF edge.weight # <<>> THEN edge.weight[1]
    ELSE IF edge.strength # <<>> THEN edge.strength[1]
    ELSE 1

\* the k-th edge names two nodes by identifiers other than 0 and no later edge
\* names the same two
LastEdgeBetweenNodes(k) ==
    LET nodes == system[1].nodes
        src(e) == NodesIndex(nodes, ClaimedSource(e))
        tgt(e) == NodesIndex(nodes, ClaimedTarget(e))
    IN /\ ClaimedSource(DocEdges[k]) # ZERO_ID /\ ClaimedTarget(DocEdges[k]) # ZERO_ID
       /\ src(DocEdges[k]) # 0 /\ tgt(DocEdges[k]) # 0
       /\ \A m \in (k + 1)..Len(DocEdges) :
             ~(src(DocEdges[m]) = src(DocEdges[k]) /\ tgt(DocEdges[m]) = tgt(DocEdges[k]))

\* the edges are read as C17 says: endpoints from source/target or from/to,
\* weight from weight, else strength, else 1.0
EdgesReadAsClaimed ==
    \A k \in 1..Len(DocEdges) :
        LastEdgeBetweenNodes(k) =>
            system[1].adjacency[NodesIndex(system[1].nodes, ClaimedSource(DocEdges[k]))]
                               [NodesIndex(system[1].nodes, ClaimedTarget(DocEdges[k]))]
               = ClaimedWeight(DocEdges[k])

\* C17 as stated: in every shape a node is identified by its id, else by its
\* node_id, else by node_{i}; the edges are read from source/target or from/to
\* with weight, else strength, else 1.0.
C17_NodeIdsAndEdgeFields ==
    LoadedGraph =>
        /\ Len(system[1].nodes) = Len(DocNodeEntries)
        /\ \A k \in 1..Len(DocNodeEntries) :
              system[1].nodes[k] = ClaimedNodeId(DocNodeEntries, k)
        /\ EdgesReadAsClaimed

\* C17 as amended: a node is identified, under a graph object, by id, else name,
\* else node_{i}; under system_of_systems_graph by node_id, else id, else
\* node_{i}; under top-level nodes by id, else node_id, else node_{i}; under
\* top-level components by id, else component_id, else comp_{i}.  The edges are
\* read from source/target or from/to with weight, else strength, else 1.0.
C17_NodeIdsByShapeAndEdgeFields ==
    LoadedGraph =>
        /\ Len(system[1].nodes) = Len(DocNodeEntries)
        /\ \A k \in 1..Len(DocNodeEntries) :
              system[1].nodes[k] = ShapeNodeId(DocNodeEntries, k)
        /\ EdgesReadAsClaimed

\* a system_of_systems_graph was loaded whose node has an id and a node_id, and
\* an edge gave its endpoints as from/to and its weight as strength
C17_Witness ==
    /\ LoadedGraph
    /\ ShapeOf = "system_of_systems_graph"
    /\ \E k \in 1..Len(DocNodeEntries) :
          /\ DocNodeEntries[k].id = "a" /\ DocNodeEntries[k].node_id = "b"
          /\ system[1].nodes[k] = "b"
    /\ \E k \in 1..Len(DocEdges) :
          /\ DocEdges[k].source = NoneVal /\ DocEdges[k].strength # <<>>
          /\ LastEdgeBetweenNodes(k)

-----------------------------------------------------------------------------
(* C18 *)

\* adjacency is square of dimension len(nodes), node_states has length len(nodes)
Dimensioned(sys) ==
    /\ Len(sys.adjacency) = Len(sys.nodes)
    /\ \A i \in 1..Len(sys.adjacency) : Len(sys.adjacency[i]) = Len(sys.nodes)
    /\ Len(sys.node_states) = Len(sys.nodes)

\* a call on the GraphSystem keeps the nodes; a failing one changes nothing;
\* add_edge writes the entry at the positions of its two nodes and
\* set_node_state the entry at the position of its node, and nothing else
RowsKeepTheirNodes ==
    (system # <<>> /\ system' # <<>>) =>
        LET old == system[1]
            new == system'[1]
            c == call'[1]
            i == NodesIndex(old.nodes, c.from_node)
            j == NodesIndex(old.nodes, c.to_node)
        IN /\ new.nodes = old.nodes
           /\ raised' # "" => new = old
           /\ (c.op = "add_edge" /\ raised' = "") =>
                 /\ i # 0 /\ j # 0
                 /\ new.adjacency[i][j] = c.value
                 /\ \A k \in 1..Len(old.nodes), l \in 1..Len(old.nodes) :
                       (k # i \/ l # j) => new.adjacency[k][l] = old.adjacency[k][l]
                 /\ new.node_states = old.node_states
           /\ (c.op = "set_node_state" /\ raised' = "") =>
                 /\ i # 0
                 /\ new.node_states[i] = c.value
                 /\ \A k \in 1..Len(old.nodes) :
                       k # i => new.node_states[k] = old.node_states[k]
                 /\ new.adjacency = old.adjacency

\* C18: once a GraphSystem is built by from_json or constructed from a name and
\* nodes, and after any sequence of add_edge and set_node_state calls, successful
\* or failing, adjacency is square of dimension len(nodes), node_states has
\* length len(nodes), and row and column k stay those of nodes[k].
C18_SquareAndIndexedByNodes ==
    /\ [](system # <<>> => Dimensioned(system[1]))
    /\ [][RowsKeepTheirNodes]_vars

\* a call failed on a GraphSystem of two nodes after an edge was added to it
C18_Witness ==
    /\ system # <<>>
    /\ Len(system[1].nodes) = 2
    /\ ncalls = 2
    /\ raised # ""
    /\ \E i \in 1..2, j \in 1..2 : system[1].adjacency[i][j] = 5

-----------------------------------------------------------------------------
(* MissingSystemSolver and MultiLayerGapDetector of matrix_gap_detection.py.
   A float is the integer 10000 times its value, as above.  The adjacency
   matrices have at most one entry other than 0 in each row and in each column,
   the all-zero matrix among them; those of system A have entries 0 and 1, those
   of system C edge weights 0, 1 and 2.  On these the pseudoinverse of A is its
   transpose, B = C @ pinv(A) has again at most one entry in each row and column,
   its rank is the number of its entries, its singular values are its entries
   and its eigenvalues are the roots of the products along its cycles, so the
   linear algebra is exact. *)

MaxSize == 2

RECURSIVE SumSeq(_)
SumSeq(s) == IF s = <<>> THEN 0 ELSE s[1] + SumSeq(Tail(s))

\* the number of entries of a matrix other than 0
CountNonZero(M) == SumSeq([i \in 1..Len(M) |-> Cardinality({j \in 1..Len(M) : M[i][j] # 0})])

Transpose(M) == [i \in 1..Len(M) |-> [j \in 1..Len(M) |-> M[j][i]]]

\* X @ Y
MatMul(X, Y) ==
    [i \in 1..Len(X) |-> [j \in 1..Len(X) |->
        SumSeq([k \in 1..Len(X) |-> X[i][k] * Y[k][j]])]]

\* X - Y
MatSub(X, Y) == [i \in 1..Len(X) |-> [j \in 1..Len(X) |-> X[i][j] - Y[i][j]]]

\* the square of np.linalg.norm(M, 'fro')
FrobeniusSq(M) == SumSeq([i \in 1..Len(M) |-> SumSeq([j \in 1..Len(M) |-> M[i][j] * M[i][j]])])

\* the n x n matrices with entries 0 and 1, at most one 1 in each row and column
PartialPermutations(n) ==
    {M \in [1..n -> [1..n -> {0, 1}]] :
        /\ \A i \in 1..n : SumSeq(M[i]) <= 1
        /\ \A j \in 1..n : SumSeq([i \in 1..n |-> M[i][j]]) <= 1}

\* np.linalg.pinv on such a matrix
pinv(M) == Transpose(M)

\* np.linalg.matrix_rank on such a matrix
matrix_rank(M) == CountNonZero(M)

\* the matrices of system C: edge weights 1 and 2
WeightedPartialPermutations(n) ==
    {M \in [1..n -> [1..n -> {0, 1, 2}]] :
        /\ \A i \in 1..n : Cardinality({j \in 1..n : M[i][j] # 0}) <= 1
        /\ \A j \in 1..n : Cardinality({i \in 1..n : M[i][j] # 0}) <= 1}

\* the singular values of such a matrix, in np.linalg.svd's descending order:
\* the k-th is the largest v that at least k entries reach
SingularValues(M) ==
    LET n == Len(M)
        reach(v) == Cardinality({ij \in (1..n) \X (1..n) : Abs(M[ij[1]][ij[2]]) >= v})
    IN [k \in 1..n |->
          10000 * (CHOOSE v \in 0..2 : /\ (v = 0 \/ reach(v) >= k)
                                       /\ \A w \in (v + 1)..2 : reach(w) < k)]

RECURSIVE MatPow(_, _)
MatPow(M, k) == IF k = 1 THEN M ELSE MatMul(M, MatPow(M, k - 1))

RECURSIVE Power(_, _)
Power(x, k) == IF k = 0 THEN 1 ELSE x * Power(x, k - 1)

\* the k-th root of p, p a product of weights 1 and 2, to two decimals
Root(p, k) ==
    100 * (CHOOSE r \in 0..200 : Power(r, k) <= p * Power(100, k) /\ Power(r + 1, k) > p * Power(100, k))

\* max(abs(eigenvalues)) of such a matrix: an entry M[i][i] of M^k is the
\* product along a cycle of length k through i, whose eigenvalues have for
\* magnitude its k-th root; without cycle every eigenvalue is 0
DominantEigenvalue(M) ==
    LET n == Len(M)
        roots == {Root(Abs(MatPow(M, k)[i][i]), k) : k \in 1..n, i \in 1..n}
    IN CHOOSE r \in roots : \A q \in roots : q <= r

\* np.exp(-error), error the square root of error_sq
ExpNeg(error_sq) ==
    CASE error_sq = 0 -> 10000
      [] error_sq = 1 -> 3678
      [] error_sq = 2 -> 2431
      [] error_sq = 3 -> 1769
      [] error_sq = 4 -> 1353
      [] error_sq = 5 -> 1068
      [] error_sq = 6 -> 863
      [] error_sq = 7 -> 709
      [] error_sq = 8 -> 591
      [] error_sq = 9 -> 497
      [] error_sq = 10 -> 423
      [] error_sq = 11 -> 362
      [] error_sq = 12 -> 313
      [] error_sq = 13 -> 271
      [] error_sq = 14 -> 237
      [] error_sq = 15 -> 207
      [] error_sq = 16 -> 183

\* a GraphSystem with these nodes and this adjacency
GraphSystemWith(nodes, adjacency) ==
    [nodes |-> nodes, adjacency |-> adjacency, node_states |-> Zeros1(Len(nodes))]

\* _pad_matrix with the block put at the bottom right
pad_matrix_bottom_right(matrix, target_size) ==
    LET current_size == Len(matrix)
        shift == target_size - current_size
    IN IF current_size >= target_size THEN matrix
       ELSE [i \in 1..target_size |-> [j \in 1..target_size |->
                IF i > shift /\ j > shift THEN matrix[i - shift][j - shift] ELSE 0]]

\* MissingSystemSolver._pad_matrix
pad_matrix(matrix, target_size) ==
    LET current_size == Len(matrix)
    IN IF current_size >= target_size THEN matrix
       ELSE [i \in 1..target_size |-> [j \in 1..target_size |->
                IF i <= current_size /\ j <= current_size THEN matrix[i][j] ELSE 0]]

\* MissingSystemSolver._interpret_transformation_matrix (the eigenvalue
\* magnitudes and the Frobenius norm left out)
interpret_transformation_matrix(B) ==
    LET rank == matrix_rank(B)
        size == Len(B) * Len(B)
    IN [rank |-> rank,
        full_rank |-> rank = Len(B),
        dominant_eigenvalue |-> DominantEigenvalue(B),
        is_identity |-> \A i \in 1..Len(B), j \in 1..Len(B) :
                           B[i][j] = IF i = j THEN 1 ELSE 0,
        is_sparse |-> 10 * CountNonZero(B) < 3 * size,
        is_diagonal |-> \A i \in 1..Len(B), j \in 1..Len(B) : i # j => B[i][j] = 0,
        sparsity |-> (10000 * CountNonZero(B)) \div size]

\* MissingSystemSolver._confidence_interpretation
confidence_interpretation(score) ==
    IF score >= 8000 THEN "HIGH - Strong evidence for specific missing system"
    ELSE IF score >= 6000 THEN "MEDIUM - Likely missing system, needs validation"
    ELSE IF score >= 4000 THEN "LOW - Weak evidence, multiple possibilities"
    ELSE "VERY_LOW - Insufficient data or poorly constrained"

\* MissingSystemSolver._calculate_confidence
calculate_confidence(B, error_sq) ==
    LET rank == matrix_rank(B)
        max_rank == Len(B)
        error_score == ExpNeg(error_sq)
        rank_score == (10000 * rank) \div max_rank
        sparsity == (10000 * CountNonZero(B)) \div (Len(B) * Len(B))
        sparsity_score == 10000 - Abs(sparsity - 5000)
        overall == (error_score + rank_score + sparsity_score) \div 3
    IN [overall |-> overall,
        reconstruction_quality |-> error_score,
        rank_quality |-> rank_score,
        sparsity_quality |-> sparsity_score,
        interpretation |-> confidence_interpretation(overall)]

\* _generate_hypotheses with the rank conditions tested independently
generate_hypotheses_independent(B, a, c) ==
    LET properties == interpret_transformation_matrix(B)
    IN (IF properties.full_rank THEN <<"complex_system">> ELSE <<>>)
       \o (IF properties.rank < 3 THEN <<"simple_system">> ELSE <<>>)
       \o (IF properties.is_sparse THEN <<"targeted_intervention">> ELSE <<>>)
       \o (IF properties.dominant_eigenvalue > 15000 THEN <<"amplifying_system">> ELSE <<>>)
       \o (IF properties.dominant_eigenvalue < 5000 THEN <<"dampening_system">> ELSE <<>>)

\* MissingSystemSolver._generate_hypotheses: the types of the hypotheses
generate_hypotheses(B, a, c) ==
    LET properties == interpret_transformation_matrix(B)
    IN (IF properties.full_rank THEN <<"complex_system">>
        ELSE IF properties.rank < 3 THEN <<"simple_system">>
        ELSE <<>>)
       \o (IF properties.is_sparse THEN <<"targeted_intervention">> ELSE <<>>)
       \o (IF properties.dominant_eigenvalue > 15000 THEN <<"amplifying_system">>
           ELSE IF properties.dominant_eigenvalue < 5000 THEN <<"dampening_system">>
           ELSE <<>>)

\* MissingSystemSolver.solve from the padded matrices on
solve_padded(A_padded, C_padded, a, c) ==
    LET A_inv == pinv(A_padded)
        B_matrix == MatMul(C_padded, A_inv)
        error_sq == FrobeniusSq(MatSub(C_padded, MatMul(B_matrix, A_padded)))
    IN [transformation_matrix |-> B_matrix,
        dimensions |-> <<Len(B_matrix), Len(B_matrix)>>,
        properties |-> interpret_transformation_matrix(B_matrix),
        confidence |-> calculate_confidence(B_matrix, error_sq),
        hypotheses |-> generate_hypotheses(B_matrix, a, c),
        reconstruction_error_sq |-> error_sq,
        solver_method |-> "pseudoinverse"]

\* MissingSystemSolver.solve
solve(a, c) ==
    LET max_n == Max(Len(a.nodes), Len(c.nodes))
        A_padded == pad_matrix(a.adjacency, max_n)
        C_padded == pad_matrix(c.adjacency, max_n)
    IN solve_padded(A_padded, C_padded, a, c)

\* a float that is not a number, and one that is
NaN == <<>>
Float(v) == <<v>>

\* x / y on numpy floats: 0.0 / 0.0 is nan, with a warning and no exception
FloatDiv(x, y) == IF y = 0 THEN NaN ELSE Float((10000 * x) \div y)

\* score >= bound; every comparison with nan is false
FloatGE(score, bound) == score # NaN /\ score[1] >= bound

\* MultiLayerGapDetector._interpret_layer_confidence
interpret_layer_confidence(score) ==
    IF FloatGE(score, 8000) THEN "HIGH - Clear layer separation"
    ELSE IF FloatGE(score, 6000) THEN "MEDIUM - Likely multi-layer structure"
    ELSE IF FloatGE(score, 4000) THEN "LOW - Ambiguous layer boundaries"
    ELSE "VERY_LOW - Poorly separated layers"

\* MultiLayerGapDetector._layer_confidence; S_norm[-1] is the last entry
layer_confidence(S_norm, num_layers) ==
    LET len == Len(S_norm)
        gap == IF num_layers < len
               THEN S_norm[IF num_layers = 0 THEN len ELSE num_layers] - S_norm[num_layers + 1]
               ELSE S_norm[len]
        squares == [k \in 1..len |-> (S_norm[k] * S_norm[k]) \div 10000]
        energy == FloatDiv(SumSeq(SubSeq(squares, 1, num_layers)), SumSeq(squares))
        overall == IF energy = NaN THEN NaN ELSE Float((gap + energy[1]) \div 2)
    IN [overall |-> overall,
        singular_value_gap |-> gap,
        cumulative_energy |-> energy,
        interpretation |-> interpret_layer_confidence(overall)]

\* Subsystems with the single-layer interpretation for every count but 0
Subsystems_single(S, num_layers) ==
    IF num_layers = 0 THEN <<>>
    ELSE <<[name |-> "Primary_Mechanism", rank |-> 1, strength |-> S[1]]>>

\* the subsystems detect describes: _single_layer_interpretation,
\* _two_layer_decomposition, _multilayer_decomposition (name, rank and strength)
Subsystems(S, num_layers) ==
    IF num_layers = 1
    THEN <<[name |-> "Primary_Mechanism", rank |-> 1, strength |-> S[1]]>>
    ELSE IF num_layers = 2
    THEN <<[name |-> "Primary_Mechanism", rank |-> 1, strength |-> S[1]],
           [name |-> "Secondary_Cascade", rank |-> 2,
            strength |-> IF Len(S) > 1 THEN S[2] ELSE 0]>>
    ELSE [i \in 1..num_layers |-> [name |-> "Layer", rank |-> i, strength |-> S[i]]]

\* the default threshold of MultiLayerGapDetector, 0.1
THRESHOLD == 1000

\* the thresholds a MultiLayerGapDetector is constructed with
Thresholds == {THRESHOLD, 4000, 6000, 10000}

\* S / S[0] if S[0] > 0 else S
Normalized(S) == IF S[1] > 0 THEN [k \in 1..Len(S) |-> (10000 * S[k]) \div S[1]] ELSE S

\* CountSignificant counting the values the threshold exceeds
CountSignificant_below(S_norm, threshold) ==
    Cardinality({k \in 1..Len(S_norm) : S_norm[k] < threshold})

\* int(np.sum(S_norm > self.threshold))
CountSignificant(S_norm, threshold) ==
    Cardinality({k \in 1..Len(S_norm) : S_norm[k] > threshold})

\* MultiLayerGapDetector(threshold).detect
detect(a, c, threshold) ==
    LET result == solve(a, c)
        B == result.transformation_matrix
        S == SingularValues(B)
        S_norm == Normalized(S)
        num_layers == CountSignificant(S_norm, threshold)
    IN [num_subsystems |-> num_layers,
        subsystems |-> Subsystems(S, num_layers),
        singular_values |-> S,
        singular_values_normalized |-> S_norm,
        threshold |-> threshold,
        confidence |-> layer_confidence(S_norm, num_layers),
        original_solution |-> result]

\* solver.solve(system_a, system_c)
Solve ==
    /\ pc = "systems"
    /\ solution' = <<solve(system_a[1], system_c[1])>>
    /\ pc' = "solved"
    /\ UNCHANGED <<matryoshka_vars, graph_vars, tool_vars, system_a, system_c, layers>>

\* detector.detect(system_a, system_c)
Detect ==
    /\ pc = "systems"
    /\ \E threshold \in Thresholds :
          layers' = <<detect(system_a[1], system_c[1], threshold)>>
    /\ pc' = "detected"
    /\ UNCHANGED <<matryoshka_vars, graph_vars, tool_vars, system_a, system_c, solution>>

\* the triangle a -> b -> c -> a with weights 1, and three nodes with self-loops
Triangle == <<<<0, 1, 0>>, <<0, 0, 1>>, <<1, 0, 0>>>>
SelfLoops(x, y, z) == <<<<x, 0, 0>>, <<0, y, 0>>, <<0, 0, z>>>>

\* the systems A and the systems C of three nodes, a single node without edges
\* among the former
SomeSystemsA == {<<<<0>>>>, Triangle, SelfLoops(1, 1, 1)}
SomeSystemsC == {Triangle, SelfLoops(1, 1, 1), SelfLoops(2, 1, 1), SelfLoops(2, 2, 0)}

\* two GraphSystems of up to MaxSize nodes each, or a few of three nodes
InitSolve ==
    /\ NoMatryoshka
    /\ NoGraph
    /\ NoTools
    /\ \/ \E n_a \in 1..MaxSize, n_c \in 1..MaxSize :
            \E A \in PartialPermutations(n_a), C \in WeightedPartialPermutations(n_c) :
               /\ system_a = <<GraphSystemWith([k \in 1..n_a |-> NodeName(k - 1)], A)>>
               /\ system_c = <<GraphSystemWith([k \in 1..n_c |-> NodeName(k - 1)], C)>>
       \/ \E A \in SomeSystemsA, C \in SomeSystemsC :
               /\ system_a = <<GraphSystemWith([k \in 1..Len(A) |-> NodeName(k - 1)], A)>>
               /\ system_c = <<GraphSystemWith([k \in 1..Len(C) |-> NodeName(k - 1)], C)>>
    /\ solution = <<>>
    /\ layers = <<>>
    /\ pc = "systems"
NextSolve == Solve \/ Detect
SpecSolve == InitSolve /\ [][NextSolve]_vars

-----------------------------------------------------------------------------
(* C19 *)

\* the matrix is n x n, its top-left block is M and its other entries are 0
PaddedFrom(P, M, n) ==
    /\ Len(P) = n
    /\ \A i \in 1..n :
          /\ Len(P[i]) = n
          /\ \A j \in 1..n :
                P[i][j] = IF i <= Len(M) /\ j <= Len(M) THEN M[i][j] ELSE 0

\* C19: solve pads both adjacency matrices to n = max(n_a, n_c); _pad_matrix
\* gives a smaller matrix an n x n matrix with the matrix as top-left block and 0
\* elsewhere and leaves an n x n matrix unchanged, so that solving two systems of
\* equal size gives what solving without padding gives.
C19_PaddingToLargerSize ==
    solution # <<>> =>
        LET A == system_a[1].adjacency
            C == system_c[1].adjacency
            n == Max(Len(A), Len(C))
        IN /\ PaddedFrom(pad_matrix(A, n), A, n)
           /\ PaddedFrom(pad_matrix(C, n), C, n)
           /\ Len(A) = n => pad_matrix(A, n) = A
           /\ Len(C) = n => pad_matrix(C, n) = C
           /\ solution[1].dimensions = <<n, n>>
           /\ solution[1] = solve_padded(pad_matrix(A, n), pad_matrix(C, n),
                                         system_a[1], system_c[1])
           /\ Len(A) = Len(C) =>
                 solution[1] = solve_padded(A, C, system_a[1], system_c[1])

\* a system of one node with a self-loop was solved against one of two nodes
C19_Witness ==
    /\ solution # <<>>
    /\ Len(system_a[1].nodes) = 1
    /\ Len(system_c[1].nodes) = 2
    /\ system_a[1].adjacency = <<<<1>>>>
    /\ solution[1].dimensions = <<2, 2>>

-----------------------------------------------------------------------------
(* C20 *)

AllZero(M) == \A i \in 1..Len(M), j \in 1..Len(M) : M[i][j] = 0

Degenerate == AllZero(system_a[1].adjacency) /\ AllZero(system_c[1].adjacency)

\* C20: on all-zero adjacency matrices solve and detect do not raise and return
\* rank 0, overall confidence 0 and the VERY_LOW interpretation.
C20_DegenerateInputsVeryLow ==
    /\ (solution # <<>> /\ Degenerate) =>
          /\ raised = ""
          /\ solution[1].properties.rank = 0
          /\ solution[1].confidence.overall = 0
          /\ solution[1].confidence.interpretation =
                "VERY_LOW - Insufficient data or poorly constrained"
    /\ (layers # <<>> /\ Degenerate) =>
          /\ raised = ""
          /\ layers[1].num_subsystems = 0
          /\ layers[1].original_solution.properties.rank = 0
          /\ layers[1].confidence.overall = Float(0)
          /\ layers[1].confidence.interpretation = "VERY_LOW - Poorly separated layers"

-----------------------------------------------------------------------------
(* C21 *)

\* the number of hypotheses of this type in the solution
HypothesesOfType(type) ==
    Cardinality({k \in 1..Len(solution[1].hypotheses) : solution[1].hypotheses[k] = type})

\* the hypothesis is in the list, once, exactly when its condition holds
OnceIff(type, condition) == HypothesesOfType(type) = IF condition THEN 1 ELSE 0

\* C21 as stated: the hypotheses come from independent conditions: complex iff
\* B is full-rank, simple iff rank(B) < 3, targeted iff B is sparse, amplifying
\* iff the dominant eigenvalue magnitude > 1.5, dampening iff it is < 0.5, each
\* appended once whatever the other conditions are.
C21_HypothesesIndependent ==
    solution # <<>> =>
        LET p == solution[1].properties
        IN /\ OnceIff("complex_system", p.full_rank)
           /\ OnceIff("simple_system", p.rank < 3)
           /\ OnceIff("targeted_intervention", p.is_sparse)
           /\ OnceIff("amplifying_system", p.dominant_eigenvalue > 15000)
           /\ OnceIff("dampening_system", p.dominant_eigenvalue < 5000)

\* C21 as amended: complex iff B is full-rank; simple iff B is not full-rank and
\* rank(B) < 3, so never together with complex; targeted iff B is sparse;
\* amplifying iff the dominant eigenvalue magnitude > 1.5, dampening iff it is
\* < 0.5; each appended once, and in this order.
C21_HypothesesRankExclusive ==
    solution # <<>> =>
        LET p == solution[1].properties
            h == solution[1].hypotheses
        IN /\ OnceIff("complex_system", p.full_rank)
           /\ OnceIff("simple_system", ~p.full_rank /\ p.rank < 3)
           /\ OnceIff("targeted_intervention", p.is_sparse)
           /\ OnceIff("amplifying_system", p.dominant_eigenvalue > 15000)
           /\ OnceIff("dampening_system", p.dominant_eigenvalue < 5000)
           /\ \A k \in 1..Len(h) :
                 h[k] \in {"complex_system", "simple_system", "targeted_intervention",
                           "amplifying_system", "dampening_system"}
           /\ \A k \in 1..Len(h), l \in 1..Len(h) :
                 (k < l) =>
                    /\ h[l] \notin {"complex_system", "simple_system"}
                    /\ h[k] \notin {"amplifying_system", "dampening_system"}

\* a full-rank B of rank 2 with dominant eigenvalue 2 was solved for: complex and
\* amplifying, not simple
C21_Witness ==
    /\ solution # <<>>
    /\ solution[1].properties.full_rank
    /\ solution[1].properties.rank = 2
    /\ solution[1].properties.dominant_eigenvalue = 20000
    /\ solution[1].hypotheses = <<"complex_system", "amplifying_system">>

-----------------------------------------------------------------------------
(* C22 *)

\* system A is a single node without edges, system C the triangle of weights 1
EndToEndScenario ==
    /\ system_a # <<>>
    /\ system_a[1].adjacency = <<<<0>>>>
    /\ system_c[1].adjacency = Triangle

\* C22: for a single-node system A without edges and a 3-node triangle C with
\* edge weights 1, 1, 1, detect returns num_subsystems in {1, 2, 3}.
C22_EndToEndLayers ==
    (layers # <<>> /\ EndToEndScenario) => layers[1].num_subsystems \in {1, 2, 3}

-----------------------------------------------------------------------------
(* C23 *)

\* the two input graphs are identical
IdenticalInputs == system_a # <<>> /\ system_a = system_c

\* C23: for identical input graphs, whatever the adjacency matrix, solve yields
\* the identity for B (is_identity true), reconstruction error 0 and a
\* confidence interpretation in the HIGH band.
C23_IdenticalInputsGiveIdentity ==
    (solution # <<>> /\ IdenticalInputs) =>
        /\ solution[1].properties.is_identity
        /\ solution[1].reconstruction_error_sq = 0
        /\ solution[1].confidence.interpretation =
              "HIGH - Strong evidence for specific missing system"

-----------------------------------------------------------------------------
(* C24 *)

\* the number of layers detect finds in its B with this threshold
LayersWith(threshold) ==
    CountSignificant(Normalized(SingularValues(layers[1].original_solution.transformation_matrix)),
                     threshold)

\* C24: for a fixed B and thresholds t1 <= t2, the number of layers detected with
\* t2 is at most the number detected with t1.
C24_LayerCountMonotone ==
    layers # <<>> =>
        /\ layers[1].num_subsystems = LayersWith(layers[1].threshold)
        /\ \A t1 \in Thresholds, t2 \in Thresholds :
              t1 <= t2 => LayersWith(t2) <= LayersWith(t1)

\* a B whose layer count falls from 3 to 1 to 0 as the threshold rises
C24_Witness ==
    /\ layers # <<>>
    /\ layers[1].threshold = 6000
    /\ layers[1].num_subsystems = 1
    /\ LayersWith(THRESHOLD) = 3
    /\ LayersWith(10000) = 0

-----------------------------------------------------------------------------
(* C25 *)

\* C25: the subsystems list of detect has as many records as num_subsystems, the
\* count of normalised singular values above the threshold: one record for 1,
\* the two records B1 and B2 for 2, one record per significant singular value
\* for 3 or more.
C25_OneRecordPerLayer ==
    layers # <<>> =>
        LET r == layers[1]
            shown == r.subsystems
        IN /\ r.num_subsystems =
                 Cardinality({k \in 1..Len(r.singular_values_normalized) :
                                 r.singular_values_normalized[k] > r.threshold})
           /\ Len(shown) = r.num_subsystems
           /\ \A k \in 1..Len(shown) : shown[k].rank = k
           /\ r.num_subsystems = 1 => shown[1].name = "Primary_Mechanism"
           /\ r.num_subsystems = 2 =>
                 shown[1].name = "Primary_Mechanism" /\ shown[2].name = "Secondary_Cascade"
           /\ r.num_subsystems >= 3 =>
                 \A k \in 1..Len(shown) :
                    shown[k].name = "Layer" /\ shown[k].strength = r.singular_values[k]

\* three layers were detected
C25_Witness ==
    /\ layers # <<>>
    /\ layers[1].num_subsystems = 3
    /\ Len(layers[1].subsystems) = 3

(***************************************************************************)
(* The command lines of the two analysis tools.                            *)
(*                                                                         *)
(* A file named on the command line is described by what the tool meets    *)
(* when it opens it: "missing" (no such file), "malformed" (not JSON),     *)
(* "no_nodes" (JSON without any node list) or "graph".  The analysis of a  *)
(* graph is the subject of the specifications above; here it is a step     *)
(* that either returns or raises (analysis_raises).  An output path is     *)
(* "none" (not given), "writable" or "unwritable".                         *)
(***************************************************************************)
FileStates == {"missing", "malformed", "no_nodes", "graph"}

OutputStates == {"none", "writable", "unwritable"}

\* the state of a CLI that stopped: sys.exit(code), what it printed on stderr
\* and what it did before
Exited(code, messages, done) == [exit_code |-> code, stderr |-> messages, effects |-> done]

\* load_graph: the message it exits with, or nothing when it returns the graph
load_graph_unchecked(file) == <<>>

load_graph(file) ==
    IF file = "missing" THEN <<"Error: File not found">>
    ELSE IF file = "malformed" THEN <<"Error: Invalid JSON">>
    ELSE <<>>

\* write_output, after the analysis: to the file when a path is given,
\* to stdout otherwise
write_output(output, done) ==
    IF output = "none" THEN Exited(0, <<>>, done \cup {"print"})
    ELSE IF output = "writable"
    THEN Exited(0, <<"Analysis written to">>, done \cup {"output"})
    ELSE Exited(1, <<"Error writing to">>, done)

\* analyze_graph: load, convert, analyse, write.  An exception of the
\* analysis is not caught: the interpreter prints the traceback and exits 1.
analyze_graph(graph_file, output, analysis_raises) ==
    IF load_graph(graph_file) # <<>> THEN Exited(1, load_graph(graph_file), {})
    ELSE IF graph_file = "no_nodes"
    THEN Exited(1, <<"Error: No architectures found in graph">>, {"load"})
    ELSE IF analysis_raises THEN Exited(1, <<"Traceback">>, {"load"})
    ELSE write_output(output, {"load", "analysis"})

\* main of matryoshka_analysis.py; graph_file is optional (nargs='?')
matryoshka_main(inv) ==
    IF inv.demo THEN Exited(0, <<"Running matryoshka analysis demo...">>, {"demo"})
    ELSE IF inv.files # <<>>
    THEN analyze_graph(inv.files[1], inv.output, inv.analysis_raises)
    ELSE Exited(1, <<"Error: Please provide a graph file or use --demo flag",
                     "Run with --help for usage information">>, {})

\* GraphSystem.from_json as the CLI sees it: it raises on a file that is not
\* JSON (json.load) and on JSON without nodes (ValueError)
from_json_raises(file) == file \in {"malformed", "no_nodes"}

\* detect_missing_systems: load both systems, analyse, write the output file
\* if asked, print.  The result is the effects and whether it raised.
detect_missing_systems(files, output, analysis_raises) ==
    IF from_json_raises(files[1]) THEN [raised |-> TRUE, effects |-> {}]
    ELSE IF from_json_raises(files[2]) THEN [raised |-> TRUE, effects |-> {"load"}]
    ELSE IF analysis_raises THEN [raised |-> TRUE, effects |-> {"load"}]
    ELSE IF output = "unwritable"
    THEN [raised |-> TRUE, effects |-> {"load", "analysis"}]
    ELSE IF output = "writable"
    THEN [raised |-> FALSE, effects |-> {"load", "analysis", "output", "print"}]
    ELSE [raised |-> FALSE, effects |-> {"load", "analysis", "print"}]

\* main of matrix_gap_detection.py
matrix_main(inv) ==
    IF inv.files[1] = "missing"
    THEN Exited(1, <<"Error: System A file not found">>, {})
    ELSE IF inv.files[2] = "missing"
    THEN Exited(1, <<"Error: System C file not found">>, {})
    ELSE LET results == detect_missing_systems(inv.files, inv.output, inv.analysis_raises)
         IN  IF ~results.raised THEN Exited(0, <<>>, results.effects)
             ELSE Exited(1, <<"Error during analysis">>
                            \o (IF inv.verbose THEN <<"Traceback">> ELSE <<>>),
                         results.effects)

\* the process runs from its start to its exit
Exit(result) ==
    /\ exit_code' = <<result.exit_code>>
    /\ stderr' = result.stderr
    /\ effects' = result.effects
    /\ UNCHANGED <<matryoshka_vars, pc, graph_vars, solver_vars, invocation,
                   workflow_vars, validator_vars>>

MatryoshkaMain ==
    /\ invocation # <<>>
    /\ exit_code = <<>>
    /\ invocation[1].tool = "matryoshka_analysis.py"
    /\ Exit(matryoshka_main(invocation[1]))

MatrixMain ==
    /\ invocation # <<>>
    /\ exit_code = <<>>
    /\ invocation[1].tool = "matrix_gap_detection.py"
    /\ Exit(matrix_main(invocation[1]))

MatryoshkaInvocations ==
    [tool : {"matryoshka_analysis.py"},
     files : {<<>>} \cup {<<f>> : f \in FileStates},
     output : OutputStates,
     format : {"text", "json", "markdown"},
     demo : BOOLEAN,
     analysis_raises : BOOLEAN]

MatrixInvocations ==
    [tool : {"matrix_gap_detection.py"},
     files : FileStates \X FileStates,
     output : OutputStates,
     format : {"json", "text"},
     multilayer : BOOLEAN,
     verbose : BOOLEAN,
     analysis_raises : BOOLEAN]

InitCli ==
    /\ NoMatryoshka
    /\ NoGraph
    /\ NoSolver
    /\ NoWorkflow
    /\ NoValidator
    /\ pc = "cli"
    /\ invocation \in {<<i>> : i \in MatryoshkaInvocations \cup MatrixInvocations}
    /\ exit_code = <<>>
    /\ stderr = <<>>
    /\ effects = {}

NextCli == MatryoshkaMain \/ MatrixMain

SpecCli == InitCli /\ [][NextCli]_vars

----------------------------------------------------------------------------
\* the files the tool is asked to analyse: none in demo mode
InputFiles ==
    IF invocation[1].tool = "matryoshka_analysis.py" /\ invocation[1].demo
    THEN {}
    ELSE {invocation[1].files[i] : i \in 1..Len(invocation[1].files)}

\* the messages that report an error
ErrorMessages ==
    {"Error: File not found", "Error: Invalid JSON",
     "Error: No architectures found in graph", "Error writing to",
     "Error: Please provide a graph file or use --demo flag",
     "Error: System A file not found", "Error: System C file not found",
     "Error during analysis", "Traceback"}

ErrorOnStderr == \E i \in 1..Len(stderr) : stderr[i] \in ErrorMessages

\* an input file does not exist or is not valid JSON: the tool exits with 1
\* and an error on stderr, has not run the analysis and has written nothing
BadInputRefused ==
    InputFiles \cap {"missing", "malformed"} # {}
        => /\ exit_code = <<1>>
           /\ ErrorOnStderr
           /\ effects \cap {"analysis", "output"} = {}

\* C26: an analysis CLI exits with code 0 when the analysis completes, and
\* exits with code 1, with an error message on stderr and without running
\* the analysis or writing an output artifact, when an input file does not
\* exist or is not valid JSON.
C26_ExitCodes ==
    (invocation # <<>> /\ exit_code # <<>>)
        => /\ "analysis" \in effects => exit_code = <<0>>
           /\ BadInputRefused

\* C26 as the code has it: the exit code is 0 when the analysis completes
\* and its result is delivered, printed or written to the output path; an
\* output path that cannot be written gives exit code 1 after the analysis.
\* The second half holds as stated, for the files the tool is asked to read.
C26_ExitCodesDelivered ==
    (invocation # <<>> /\ exit_code # <<>>)
        => /\ ("analysis" \in effects /\ effects \cap {"print", "output"} # {})
                  => exit_code = <<0>>
           /\ ("analysis" \in effects /\ exit_code = <<1>>)
                  => invocation[1].output = "unwritable"
           /\ BadInputRefused

\* system A is loaded, system C is not valid JSON: exit code 1
C26_Witness ==
    /\ invocation # <<>>
    /\ invocation[1].tool = "matrix_gap_detection.py"
    /\ invocation[1].files = <<"graph", "malformed">>
    /\ exit_code = <<1>>
    /\ effects = {"load"}

----------------------------------------------------------------------------
(* C27 *)

\* the taxonomy levels that share the maximal score: the positions in
\* hierarchy_order of the levels whose weights sum to the best score
TiedLevels(a) ==
    {j \in 1..Len(hierarchy_order) :
        ExactScore(a, hierarchy_order[j]) = BestExactScore(a)}

LowestTiedLevel(a) ==
    hierarchy_order[CHOOSE j \in TiedLevels(a) : \A k \in TiedLevels(a) : j <= k]

\* C27: with no level declared and several taxonomy levels sharing the
\* maximal score, infer_hierarchy_level returns the lowest of the tied
\* levels in taxonomy order.  Ties below 0.3, where the level is "unknown"
\* whatever the scores are, are left out of the statement.
C27_LowestTiedLevelReturned ==
    (Inferred /\ Undeclared) =>
        LET a == architectures[1]
            m == hierarchy_metadata[a.name]
        IN (Cardinality(TiedLevels(a)) > 1 /\ BestExactScore(a) >= UNKNOWN_FLOOR)
               => m.inferred_level = LowestTiedLevel(a)

----------------------------------------------------------------------------
(* C28 *)

\* the position in architectures of the architecture of that name
ArchNamed(name) == CHOOSE i \in 1..Len(architectures) : architectures[i].name = name

\* a relationship between taxonomy levels more than one apart whose parent
\* lists the child in its subarchitectures
IndirectButListed(r) ==
    /\ r.parent_level \in Taxonomy
    /\ r.child_level \in Taxonomy
    /\ Abs(Ordinal(r.parent_level) - Ordinal(r.child_level)) > 1
    /\ ListsChild(ArchNamed(r.parent_architecture), ArchNamed(r.child_architecture))

HasIntermediateGap(r) ==
    \E g \in 1..Len(gaps) :
        /\ gaps[g].gap_type = "missing_intermediate"
        /\ gaps[g].architecture_a = r.parent_architecture
        /\ gaps[g].architecture_b = r.child_architecture

\* C28: a relationship between levels more than one apart whose parent lists
\* the child in subarchitectures has relationship_type nested_indirect and
\* direct_containment = true, and discover_hierarchical_gaps emits a
\* missing_intermediate gap for it.
C28_ListedChildStillGetsGap ==
    pc = "done" =>
        \A k \in 1..Len(relationships) :
            IndirectButListed(relationships[k])
                => /\ relationships[k].relationship_type = NESTED_INDIRECT
                   /\ relationships[k].direct_containment
                   /\ HasIntermediateGap(relationships[k])

\* the pipeline has run on a pair two or more levels apart whose parent lists
\* the child
C28_Witness ==
    /\ pc = "done"
    /\ \E k \in 1..Len(relationships) :
          /\ IndirectButListed(relationships[k])
          /\ HasIntermediateGap(relationships[k])

(***************************************************************************)
(* workflow_runner.py: WorkflowRunner.                                     *)
(*                                                                         *)
(* A workflow is its entry_points (name -> first_step) and its             *)
(* workflow_steps, each a step_id, a next_step (NoneVal when the key is    *)
(* absent) and its actions, which are one of: no action; an action that    *)
(* stores updates {"operations_since_refresh": 0} in working_memory.json;  *)
(* the same action storing in another file.  run is followed one           *)
(* iteration of its while loop at a time.                                  *)
(***************************************************************************)
MaxSteps == 2
MaxExecutions == 4

StepIds == {"S1", "S2"}

\* "S9" is the id of no step
NextSteps == StepIds \cup {NoneVal, "S9"}

ActionKinds == {"no_action", "store_in_working_memory", "store_elsewhere"}

Workflows ==
    [entry_points : [{"new_system"} -> NextSteps],
     workflow_steps : UNION {[1..n -> [step_id : StepIds, next_step : NextSteps,
                                       actions : ActionKinds]] : n \in 0..MaxSteps}]

\* _init_context: a new working memory, or the one an earlier run saved
WorkingMemories ==
    [current_step : {NoneVal}, operations_since_refresh : {0}]
    \cup [current_step : StepIds, operations_since_refresh : {1}]

\* "for s in workflow_steps: if s['step_id'] == step_id: step = s; break":
\* the position of the first step of that id, 0 when there is none
find_step(steps, step_id) ==
    IF \E k \in 1..Len(steps) : steps[k].step_id = step_id
    THEN CHOOSE k \in 1..Len(steps) :
            /\ steps[k].step_id = step_id
            /\ \A j \in 1..(k - 1) : steps[j].step_id # step_id
    ELSE 0

\* _execute_action that stores nothing
execute_action_without_store(memory, actions) == memory

\* _execute_action on the actions of a step: "if 'working_memory.json' in
\* store_location: if 'updates' in action: self._apply_updates(...)"
execute_action(memory, actions) ==
    IF actions = "store_in_working_memory"
    THEN [memory EXCEPT !.operations_since_refresh = 0]
    ELSE memory

TrackerWrite(step_id, status) == [step_id |-> step_id, status |-> status]

\* run up to its while loop
Run ==
    /\ pc = "constructed"
    /\ \E entry_point \in {"new_system", "resume"} :
          IF entry_point \notin DOMAIN workflow_data[1].entry_points
          THEN /\ pc' = "unknown_entry_point"
               /\ UNCHANGED current_step_id
          ELSE LET first_step_id == workflow_data[1].entry_points[entry_point]
               IN /\ current_step_id' = first_step_id
                  /\ pc' = IF first_step_id # NoneVal THEN "running" ELSE "complete"
    /\ UNCHANGED <<matryoshka_vars, graph_vars, solver_vars, cli_vars, validator_vars,
                   workflow_data, working_memory, tracker, tracker_writes>>

\* one iteration of "while current_step_id: current_step_id = self._execute_step(...)"
ExecuteStep ==
    /\ pc = "running"
    /\ Len(tracker_writes) < 2 * MaxExecutions
    /\ LET steps == workflow_data[1].workflow_steps
           k == find_step(steps, current_step_id)
       IN IF k = 0
          THEN /\ current_step_id' = NoneVal
               /\ pc' = "complete"
               /\ UNCHANGED <<working_memory, tracker, tracker_writes>>
          ELSE LET step == steps[k]
                   entered == [working_memory[1] EXCEPT !.current_step = step.step_id]
                   acted == execute_action(entered, step.actions)
               IN /\ working_memory' =
                        <<[acted EXCEPT !.operations_since_refresh = @ + 1]>>
                  /\ tracker' = [id \in DOMAIN tracker \cup {step.step_id} |->
                                    IF id = step.step_id THEN "completed" ELSE tracker[id]]
                  /\ tracker_writes' = tracker_writes
                        \o <<TrackerWrite(step.step_id, "in_progress"),
                             TrackerWrite(step.step_id, "completed")>>
                  /\ current_step_id' = step.next_step
                  /\ pc' = IF step.next_step # NoneVal THEN "running" ELSE "complete"
    /\ UNCHANGED <<matryoshka_vars, graph_vars, solver_vars, cli_vars, validator_vars,
                   workflow_data>>

InitWorkflow ==
    /\ NoMatryoshka
    /\ NoGraph
    /\ NoSolver
    /\ NoCli
    /\ NoValidator
    /\ pc = "constructed"
    /\ workflow_data \in {<<w>> : w \in Workflows}
    /\ working_memory \in {<<m>> : m \in WorkingMemories}
    /\ tracker = [id \in {} |-> "completed"]
    /\ tracker_writes = <<>>
    /\ current_step_id = NoneVal

NextWorkflow == Run \/ ExecuteStep

SpecWorkflow == InitWorkflow /\ [][NextWorkflow]_vars

\* run is not suspended: it takes its next iteration
SpecWorkflowFair == SpecWorkflow /\ WF_vars(Run) /\ WF_vars(ExecuteStep)

----------------------------------------------------------------------------
(* C29 *)

RECURSIVE ChainEndsFrom(_, _)
\* following next_step from step_id reaches, within n steps, a step without
\* next_step or an id that no step has
ChainEndsFrom(step_id, n) ==
    LET steps == workflow_data[1].workflow_steps
    IN IF \A k \in 1..Len(steps) : steps[k].step_id # step_id THEN TRUE
       ELSE IF n = 0 THEN FALSE
       ELSE LET first == CHOOSE k \in 1..Len(steps) :
                            /\ steps[k].step_id = step_id
                            /\ \A j \in 1..(k - 1) : steps[j].step_id # step_id
            IN ChainEndsFrom(steps[first].next_step, n - 1)

\* the chain that starts at the first_step of the entry point ends; a chain
\* that visits more steps than there are is cyclic
ChainEnds ==
    ChainEndsFrom(workflow_data[1].entry_points["new_system"],
                  Len(workflow_data[1].workflow_steps))

\* run has been called on a known entry point
Started == workflow_data # <<>> /\ pc \in {"running", "complete"}

\* run terminates if and only if the chain ends
TerminatesIffChainEnds ==
    /\ [](Started /\ pc = "complete" => ChainEnds)
    /\ (Started /\ ChainEnds) ~> (pc = "complete")

\* a step was executed in this transition
StepExecuted == tracker_writes' # tracker_writes

\* the step that is about to be executed
CurrentStep ==
    LET steps == workflow_data[1].workflow_steps
    IN steps[CHOOSE k \in 1..Len(steps) :
                /\ steps[k].step_id = current_step_id
                /\ \A j \in 1..(k - 1) : steps[j].step_id # current_step_id]

\* the step is recorded as in_progress and then as completed
RecordedInProgressThenCompleted ==
    /\ tracker_writes' = tracker_writes
          \o <<[step_id |-> current_step_id, status |-> "in_progress"],
               [step_id |-> current_step_id, status |-> "completed"]>>
    /\ tracker'[current_step_id] = "completed"

C29_WitnessCounterGrows ==
    /\ workflow_data # <<>>
    /\ pc = "running"
    /\ ~ChainEnds
    /\ Len(tracker_writes) = 2 * MaxExecutions
    /\ working_memory[1].operations_since_refresh >= MaxExecutions

(***************************************************************************)
(* validate_merged_architecture.py: ArchitectureValidator.                 *)
(*                                                                         *)
(* self.nodes is a dict; its keys are kept in insertion order as a list of *)
(* distinct ids.  An edge is its source, its target and the type that      *)
(* edge.get('edge_type', edge.get('type', 'unknown')) reads.               *)
(***************************************************************************)
MaxValidatorEdges == 3

ValidatorIds == <<"a", "b", ZERO_ID>>

\* the key lists of self.nodes: the ids that are present, in the order of
\* ValidatorIds or in the opposite order
ValidatorNodeLists ==
    LET Pick(present, order) ==
            LET Keep[i \in 0..Len(order)] ==
                    IF i = 0 THEN <<>>
                    ELSE IF order[i] \in present THEN Append(Keep[i - 1], order[i])
                    ELSE Keep[i - 1]
            IN Keep[Len(order)]
        ids == {ValidatorIds[i] : i \in 1..Len(ValidatorIds)}
        reversed == [i \in 1..Len(ValidatorIds) |-> ValidatorIds[Len(ValidatorIds) + 1 - i]]
    IN {Pick(present, ValidatorIds) : present \in SUBSET ids}
       \cup {Pick(present, reversed) : present \in SUBSET ids}

ValidatorEdges ==
    [source : {ValidatorIds[i] : i \in 1..Len(ValidatorIds)},
     target : {ValidatorIds[i] : i \in 1..Len(ValidatorIds)},
     edge_type : {"dependency", "contains"}]

CycleEdgeTypes == {"invocation", "dependency", "data_flow"}

\* the edges that "if source and target" lets into adj
AdjEdges(edges) ==
    SelectSeq(edges, LAMBDA e : /\ e.edge_type \in CycleEdgeTypes
                                /\ Truthy(e.source) /\ Truthy(e.target))

\* adj[source].append(target) raises KeyError
AdjRaises(nodes, edges) ==
    \E k \in 1..Len(AdjEdges(edges)) :
        \A i \in 1..Len(nodes) : nodes[i] # AdjEdges(edges)[k].source

\* adj = {nid: [] for nid in self.nodes.keys()}, filled edge by edge
Adj(nodes, edges) ==
    [nid \in {nodes[i] : i \in 1..Len(nodes)} |->
        LET out == SelectSeq(AdjEdges(edges), LAMBDA e : e.source = nid)
        IN [k \in 1..Len(out) |-> out[k].target]]

\* adj.get(node, [])
AdjGet(adj, node) == IF node \in DOMAIN adj THEN adj[node] ELSE <<>>

RECURSIVE has_cycle_from(_, _, _, _)
RECURSIVE ScanNeighbors(_, _, _, _, _)
\* the loop "for neighbor in adj.get(node, [])" from the i-th neighbor on;
\* rec_stack is the stack with node on it, visited is what the calls made so
\* far have visited.  The result is the return value and the visited set.
ScanNeighbors(adj, node, i, visited, rec_stack) ==
    IF i > Len(AdjGet(adj, node)) THEN [cycle |-> FALSE, visited |-> visited]
    ELSE LET neighbor == AdjGet(adj, node)[i]
         IN IF neighbor \notin visited
            THEN LET r == has_cycle_from(adj, neighbor, visited, rec_stack)
                 IN IF r.cycle THEN r
                    ELSE ScanNeighbors(adj, node, i + 1, r.visited, rec_stack)
            ELSE IF neighbor \in rec_stack
            THEN [cycle |-> TRUE, visited |-> visited]
            ELSE ScanNeighbors(adj, node, i + 1, visited, rec_stack)

has_cycle_from(adj, node, visited, rec_stack) ==
    ScanNeighbors(adj, node, 1, visited \cup {node}, rec_stack \cup {node})

RECURSIVE CycleRoots(_, _, _, _)
\* "for node in self.nodes.keys(): if node not in visited: if has_cycle_from(
\* node, visited, set())": the nodes an issue is recorded for, in order
CycleRoots(adj, nodes, i, visited) ==
    IF i > Len(nodes) THEN <<>>
    ELSE IF nodes[i] \in visited THEN CycleRoots(adj, nodes, i + 1, visited)
    ELSE LET r == has_cycle_from(adj, nodes[i], visited, {})
         IN (IF r.cycle THEN <<nodes[i]>> ELSE <<>>)
            \o CycleRoots(adj, nodes, i + 1, r.visited)

ValidationIssue(severity, category, node_id) ==
    [severity |-> severity, category |-> category, node_id |-> node_id]

CheckCircularDependencies ==
    /\ validator # <<>>
    /\ cycles_found = <<>>
    /\ raised = ""
    /\ LET v == validator[1]
           roots == CycleRoots(Adj(v.nodes, v.edges), v.nodes, 1, {})
       IN IF AdjRaises(v.nodes, v.edges)
          THEN /\ raised' = "KeyError"
               /\ UNCHANGED <<validator, cycles_found>>
          ELSE /\ cycles_found' = <<Len(roots)>>
               /\ validator' = <<[v EXCEPT !.issues = @ \o
                      [k \in 1..Len(roots) |->
                          ValidationIssue("critical", "cycle", roots[k])]]>>
               /\ UNCHANGED raised
    /\ UNCHANGED <<matryoshka_vars, pc, solver_vars, cli_vars, workflow_vars,
                   data, system, call, ncalls>>

InitValidate ==
    /\ NoMatryoshka
    /\ NoGraph
    /\ NoSolver
    /\ NoCli
    /\ NoWorkflow
    /\ pc = "validator"
    /\ \E nodes \in ValidatorNodeLists :
       \E n \in 0..MaxValidatorEdges : \E edges \in [1..n -> ValidatorEdges] :
          validator = <<[nodes |-> nodes, edges |-> edges, issues |-> <<>>]>>
    /\ cycles_found = <<>>

NextValidate == CheckCircularDependencies

SpecValidate == InitValidate /\ [][NextValidate]_vars

----------------------------------------------------------------------------
(* C30 *)

\* the directed graph of the typed edges
TypedEdges ==
    {<<validator[1].edges[k].source, validator[1].edges[k].target>> :
        k \in {j \in 1..Len(validator[1].edges) :
                  validator[1].edges[j].edge_type \in CycleEdgeTypes}}

RECURSIVE ReachableIn(_, _, _)
\* the nodes that a walk of 1..n typed edges from the set reaches
ReachableIn(from, n, E) ==
    LET step == {e[2] : e \in {d \in E : d[1] \in from}}
    IN IF n = 1 THEN step ELSE step \cup ReachableIn(step, n - 1, E)

HasDirectedCycle ==
    \E e \in TypedEdges : e[1] \in ReachableIn({e[1]}, Cardinality(TypedEdges), TypedEdges)

SourcesAreNodes ==
    \A e \in TypedEdges : \E i \in 1..Len(validator[1].nodes) : validator[1].nodes[i] = e[1]

CycleIssues ==
    {k \in 1..Len(validator[1].issues) : validator[1].issues[k].category = "cycle"}

\* C30: provided the source of every typed edge is a node id, the count that
\* check_circular_dependencies returns is greater than 0 if and only if the
\* graph of the edges of type invocation, dependency or data_flow has a
\* directed cycle, and it is 0, with no cycle issue recorded, exactly when
\* that graph is acyclic.
C30_CountPositiveIffCycle ==
    (validator # <<>> /\ cycles_found # <<>> /\ SourcesAreNodes) =>
        /\ cycles_found[1] > 0 <=> HasDirectedCycle
        /\ (cycles_found[1] = 0 /\ CycleIssues = {}) <=> ~HasDirectedCycle

====
